---- MODULE Spec2Model ----
(***************************************************************************)
(* Access-control, ticket-lifecycle and allocation engine of the customer  *)
(* support ticketing system (Project/database.py, permissions.py,          *)
(* users.py, allocation.py, app.py).                                       *)
(*                                                                         *)
(* The store is the three SQLite tables tickets, ticket_history, comments  *)
(* and the users table.  A timestamp is the value of the wall clock,       *)
(* an integer here; SQL NULL / Python None is None for text columns and    *)
(* NoTime for timestamp columns.                                           *)
(***************************************************************************)
EXTENDS Integers, Sequences, FiniteSets, TLC

VARIABLES
    users,          \* users table: email -> [role, is_active]
    tickets,        \* tickets table: id -> row
    nextId,         \* AUTOINCREMENT counter of tickets.id
    history,        \* ticket_history table, in insertion order
    comments,       \* comments table, in insertion order
    nextCommentId,  \* AUTOINCREMENT counter of comments.id
    clock,          \* the wall clock read by datetime.now()
    resp,           \* the last call that returned normally
    lock,           \* db_lock: the thread that holds it, or None
    procs           \* per thread: the statement it stands at and its locals

vars == <<users, tickets, nextId, history, comments, nextCommentId, clock, resp,
          lock, procs>>

threads == <<lock, procs>>

store == <<tickets, nextId, history, comments, nextCommentId>>

-----------------------------------------------------------------------------
(* Bounds of the model *)

MaxTickets == 1
MaxHistory == 4
MaxComments == 2
MaxClock == 1

-----------------------------------------------------------------------------
(* Values *)

None == "None"
NoTime == -1

ROLE_CUSTOMER == "customer"
ROLE_HELPER == "helper"
ROLE_ADMIN == "admin"

VALID_PRIORITIES == {"Low", "Medium", "High", "Critical"}
VALID_STATUSES == {"Open", "In Progress", "Resolved", "Closed", "On Hold"}

\* A directory in the shape of setup_demo_users: one admin, helpers, customers.
Emails == {"admin@x", "h1@x", "h2@x", "c1@x", "c2@x"}

DemoRole(e) ==
    CASE e = "admin@x" -> ROLE_ADMIN
      [] e \in {"h1@x", "h2@x"} -> ROLE_HELPER
      [] OTHER -> ROLE_CUSTOMER

\* Identity strings a caller can present: the stored emails, spellings of a
\* stored email that differ in case, and one that no user has.
Identities == Emails \cup {"H1@X", "C1@X", "ghost@x"}

\* email.lower().strip()
Normalize(email) ==
    CASE email = "H1@X" -> "h1@x"
      [] email = "C1@X" -> "c1@x"
      [] OTHER -> email

\* str.strip() on the titles and comment bodies of the model
strip(s) ==
    CASE s = " " -> ""
      [] s = " a " -> "a"
      [] OTHER -> s

TicketIds == 1..(MaxTickets + 1)

-----------------------------------------------------------------------------
(* users.py *)

NoUser == [email |-> None, role |-> None, is_active |-> FALSE]

get_user_by_email(email) ==
    LET e == Normalize(email) IN
    IF e \in DOMAIN users
    THEN [email |-> e, role |-> users[e].role, is_active |-> users[e].is_active]
    ELSE NoUser

Found(user) == user.email # None

is_helper(email) ==
    LET user == get_user_by_email(email) IN
    Found(user) /\ user.role = ROLE_HELPER /\ user.is_active

-----------------------------------------------------------------------------
(* database.py: reads *)

TicketExists(ticket_id) == ticket_id \in DOMAIN tickets

get_ticket(ticket_id) == tickets[ticket_id]

\* One "k=?" condition of get_all_tickets: SQL equality, which NULL never
\* satisfies on either side.
Matches(t, k, v) ==
    /\ v # None
    /\ CASE k = "status" -> t.status = v
         [] k = "priority" -> t.priority = v
         [] k = "assigned_to" -> t.assigned_to # None /\ t.assigned_to = v
         [] k = "created_by" -> t.created_by # None /\ t.created_by = v
         [] OTHER -> TRUE

FilterFields == {"status", "priority", "assigned_to", "created_by"}

\* filters: a function from a set of keyword names to values; keys outside the
\* whitelist are ignored.  The result is the set of ids of the rows returned.
get_all_tickets(filters) ==
    {id \in DOMAIN tickets :
        \A k \in DOMAIN filters \cap FilterFields : Matches(tickets[id], k, filters[k])}

\* A variant that returns every comment of the ticket.
get_ticket_comments_All(ticket_id, include_internal) ==
    SelectSeq(comments, LAMBDA c : c.ticket_id = ticket_id)

\* int(is_internal) = 0 is the public flag
get_ticket_comments(ticket_id, include_internal) ==
    SelectSeq(comments,
        LAMBDA c : c.ticket_id = ticket_id /\ (include_internal \/ ~c.is_internal))

-----------------------------------------------------------------------------
(* database.py: writes, as functions from the store to the store *)

HistoryEntry(ticket_id, field, old, new, changed_by, now) ==
    [ticket_id |-> ticket_id, field_changed |-> field, old_value |-> old,
     new_value |-> new, changed_by |-> changed_by, changed_at |-> now]

\* "changed_by or 'System'"
OrSystem(who) == IF who = None \/ who = "" THEN "System" ELSE who

\* "str(v) if v else None"
StrOrNone(v) == IF v = None \/ v = "" THEN None ELSE v

create_ticket_error(title, priority) ==
    IF title = None \/ title = "" \/ strip(title) = "" THEN "ValueError"
    ELSE IF priority \notin VALID_PRIORITIES THEN "ValueError"
    ELSE "ok"

\* A row that stores the title as it was passed.
NewTicket_AsPassed(id, title, description, priority, created_by, now) ==
    [id |-> id, title |-> title, description |-> description,
     priority |-> priority, status |-> "Open", assigned_to |-> None,
     created_by |-> created_by, created_at |-> now, updated_at |-> now,
     resolved_at |-> NoTime, closed_at |-> NoTime]

NewTicket(id, title, description, priority, created_by, now) ==
    [id |-> id, title |-> strip(title), description |-> description,
     priority |-> priority, status |-> "Open", assigned_to |-> None,
     created_by |-> created_by, created_at |-> now, updated_at |-> now,
     resolved_at |-> NoTime, closed_at |-> NoTime]

\* status is truthy
Given(status) == status # None /\ status # ""

\* A validation that accepts any status.
update_ticket_error_AnyStatus(ticket_id, status) ==
    IF ~TicketExists(ticket_id) THEN "ValueError"
    ELSE "ok"

update_ticket_error(ticket_id, status) ==
    IF Given(status) /\ status \notin VALID_STATUSES THEN "ValueError"
    ELSE IF ~TicketExists(ticket_id) THEN "ValueError"
    ELSE "ok"

\* A variant that writes the status whenever one is supplied.
StatusChanges_Always(ticket, status) == Given(status)

StatusChanges(ticket, status) == Given(status) /\ status # ticket.status

\* A variant that takes every supplied assignee for a change.
AssigneeChanges_Supplied(ticket, assigned_to) == assigned_to # None

AssigneeChanges(ticket, assigned_to) ==
    assigned_to # None /\ assigned_to # ticket.assigned_to

\* A variant that fixes resolved_at on the first arrival only.
resolved_at_after_First(ticket, status, now) ==
    IF status = "Resolved" /\ ticket.resolved_at = NoTime THEN now
    ELSE ticket.resolved_at

resolved_at_after(ticket, status, now) ==
    IF status = "Resolved" /\ ticket.status # "Resolved" THEN now
    ELSE ticket.resolved_at

\* A variant that never fixes closed_at.
closed_at_after_Never(ticket, status, now) ==
    ticket.closed_at

closed_at_after(ticket, status, now) ==
    IF status = "Closed" /\ ticket.status # "Closed" THEN now
    ELSE ticket.closed_at

\* A variant that stamps updated_at on every call.
UpdatedTicket_Stamped(ticket, status, assigned_to, now) ==
    [ticket EXCEPT
        !.status = IF StatusChanges(ticket, status) THEN status ELSE @,
        !.assigned_to = IF AssigneeChanges(ticket, assigned_to) THEN assigned_to ELSE @,
        !.updated_at = now,
        !.resolved_at = resolved_at_after(ticket, status, now),
        !.closed_at = closed_at_after(ticket, status, now)]

\* The row of the ticket after update_ticket's UPDATE statements.
UpdatedTicket(ticket, status, assigned_to, now) ==
    [ticket EXCEPT
        !.status = IF StatusChanges(ticket, status) THEN status ELSE @,
        !.assigned_to = IF AssigneeChanges(ticket, assigned_to) THEN assigned_to ELSE @,
        !.updated_at = IF StatusChanges(ticket, status) \/ AssigneeChanges(ticket, assigned_to)
                       THEN now ELSE @,
        !.resolved_at = resolved_at_after(ticket, status, now),
        !.closed_at = closed_at_after(ticket, status, now)]

\* The rows update_ticket appends to ticket_history: status first, then assigned_to.
UpdateHistory(ticket, status, assigned_to, changed_by, now) ==
    (IF StatusChanges(ticket, status)
     THEN <<HistoryEntry(ticket.id, "status", StrOrNone(ticket.status),
                         StrOrNone(status), OrSystem(changed_by), now)>>
     ELSE <<>>)
    \o
    (IF AssigneeChanges(ticket, assigned_to)
     THEN <<HistoryEntry(ticket.id, "assigned_to", StrOrNone(ticket.assigned_to),
                         StrOrNone(assigned_to), OrSystem(changed_by), now)>>
     ELSE <<>>)

-----------------------------------------------------------------------------
(* The record of the last call that returned normally: its name, what it
   returned, when it was made, the ticket and the fields it was asked to write. *)

Call(op, ticket_id, status, assigned_to, result) ==
    [op |-> op, ticket_id |-> ticket_id, status |-> status,
     assigned_to |-> assigned_to, result |-> result, at |-> clock]

NoCall == [op |-> None, ticket_id |-> 0, status |-> None,
           assigned_to |-> None, result |-> None, at |-> 0]

\* A call that returns an error (result) leaves the database as it was; the
\* record keeps the last call that returned normally.
Failed(op, result) ==
    /\ result # "ok"
    /\ UNCHANGED vars

-----------------------------------------------------------------------------
(* Initial state: init_database, init_users_table, setup_demo_users *)

Threads == {"t1", "t2"}

\* A thread that is in no call
Idle == [pc |-> "idle", ticket_id |-> 0, seen |-> <<>>]

Init ==
    /\ lock = None
    /\ procs = [th \in Threads |-> Idle]
    /\ users = [e \in Emails |-> [role |-> DemoRole(e), is_active |-> TRUE]]
    /\ tickets = <<>>
    /\ nextId = 1
    /\ history = <<>>
    /\ comments = <<>>
    /\ nextCommentId = 1
    /\ clock = 0
    /\ resp = NoCall

-----------------------------------------------------------------------------
(* The wall clock advances between calls *)

Tick ==
    /\ clock < MaxClock
    /\ clock' = clock + 1
    /\ UNCHANGED <<threads, users, store, resp>>

-----------------------------------------------------------------------------
(* database.py: the writes *)

\* create_ticket(title, description, priority, created_by); room bounds the
\* number of tickets
CreateTicketIf(room, op, title, description, priority, created_by) ==
    IF create_ticket_error(title, priority) # "ok"
    THEN Failed(op, create_ticket_error(title, priority))
    ELSE /\ room
         /\ Len(history) < MaxHistory
         /\ tickets' = (nextId :> NewTicket(nextId, title, description, priority,
                                            created_by, clock)) @@ tickets
         /\ nextId' = nextId + 1
         /\ history' = Append(history,
                HistoryEntry(nextId, "created", None, "Open", OrSystem(created_by), clock))
         /\ resp' = Call(op, nextId, None, None, "ok")
         /\ UNCHANGED <<threads, users, comments, nextCommentId, clock>>

DoCreateTicket(op, title, description, priority, created_by) ==
    CreateTicketIf(nextId <= MaxTickets, op, title, description, priority, created_by)

\* update_ticket(ticket_id, status, assigned_to, changed_by)
DoUpdateTicket(op, ticket_id, status, assigned_to, changed_by) ==
    IF update_ticket_error(ticket_id, status) # "ok"
    THEN Failed(op, update_ticket_error(ticket_id, status))
    ELSE LET ticket == get_ticket(ticket_id)
             rows == UpdateHistory(ticket, status, assigned_to, changed_by, clock)
         IN /\ Len(history) + Len(rows) <= MaxHistory
            /\ tickets' = [tickets EXCEPT
                              ![ticket_id] = UpdatedTicket(ticket, status, assigned_to, clock)]
            /\ history' = history \o rows
            /\ resp' = Call(op, ticket_id, status, assigned_to, "ok")
            /\ UNCHANGED <<threads, users, nextId, comments, nextCommentId, clock>>

\* A store that numbers a new ticket one above the largest id still present.
DoDeleteTicket_ReuseId(op, ticket_id) ==
    IF ~TicketExists(ticket_id)
    THEN Failed(op, "False")
    ELSE /\ comments' = SelectSeq(comments, LAMBDA c : c.ticket_id # ticket_id)
         /\ history' = SelectSeq(history, LAMBDA h : h.ticket_id # ticket_id)
         /\ tickets' = [id \in DOMAIN tickets \ {ticket_id} |-> tickets[id]]
         /\ nextId' = 1 + Cardinality({id \in DOMAIN tickets \ {ticket_id} :
                                          id < nextId})
         /\ resp' = Call(op, ticket_id, None, None, "True")
         /\ UNCHANGED <<threads, users, nextCommentId, clock>>

\* delete_ticket(ticket_id)
DoDeleteTicket(op, ticket_id) ==
    IF ~TicketExists(ticket_id)
    THEN Failed(op, "False")
    ELSE /\ comments' = SelectSeq(comments, LAMBDA c : c.ticket_id # ticket_id)
         /\ history' = SelectSeq(history, LAMBDA h : h.ticket_id # ticket_id)
         /\ tickets' = [id \in DOMAIN tickets \ {ticket_id} |-> tickets[id]]
         /\ resp' = Call(op, ticket_id, None, None, "True")
         /\ UNCHANGED <<threads, users, nextId, nextCommentId, clock>>

add_comment_error(ticket_id, comment) ==
    IF comment = None \/ comment = "" \/ strip(comment) = "" THEN "ValueError"
    ELSE IF ~TicketExists(ticket_id) THEN "ValueError"
    ELSE "ok"

\* add_comment(ticket_id, author, comment, is_internal)
DoAddComment(op, ticket_id, author, comment, is_internal) ==
    IF add_comment_error(ticket_id, comment) # "ok"
    THEN Failed(op, add_comment_error(ticket_id, comment))
    ELSE /\ Len(comments) < MaxComments
         /\ comments' = Append(comments,
                [id |-> nextCommentId, ticket_id |-> ticket_id, author |-> author,
                 comment |-> strip(comment), is_internal |-> is_internal,
                 created_at |-> clock])
         /\ nextCommentId' = nextCommentId + 1
         /\ resp' = Call(op, ticket_id, None, None, "ok")
         /\ UNCHANGED <<threads, users, tickets, nextId, history, clock>>

-----------------------------------------------------------------------------
(* permissions.py *)

\* A variant that does not look at the active flag.
Usable_Any(user) == Found(user)

Usable(user) == Found(user) /\ user.is_active

can_create_ticket(user_email) == Usable(get_user_by_email(user_email))

\* A variant that decides for the administrator before it looks for the ticket.
can_view_ticket_AdminFirst(user_email, ticket_id) ==
    LET user == get_user_by_email(user_email) IN
    IF ~Usable(user) THEN FALSE
    ELSE IF user.role = ROLE_ADMIN THEN TRUE
    ELSE IF ~TicketExists(ticket_id) THEN FALSE
    ELSE IF user.role = ROLE_HELPER THEN get_ticket(ticket_id).assigned_to = user_email
    ELSE IF user.role = ROLE_CUSTOMER THEN get_ticket(ticket_id).created_by = user_email
    ELSE FALSE

can_view_ticket(user_email, ticket_id) ==
    LET user == get_user_by_email(user_email) IN
    IF ~Usable(user) THEN FALSE
    ELSE IF ~TicketExists(ticket_id) THEN FALSE
    ELSE IF user.role = ROLE_ADMIN THEN TRUE
    ELSE IF user.role = ROLE_HELPER THEN get_ticket(ticket_id).assigned_to = user_email
    ELSE IF user.role = ROLE_CUSTOMER THEN get_ticket(ticket_id).created_by = user_email
    ELSE FALSE

can_view_all_tickets(user_email) ==
    LET user == get_user_by_email(user_email) IN
    Found(user) /\ user.role = ROLE_ADMIN /\ user.is_active

\* A variant that lets a customer update the tickets they created.
can_update_ticket_Creator(user_email, ticket_id) ==
    LET user == get_user_by_email(user_email) IN
    IF ~Usable(user) THEN FALSE
    ELSE IF ~TicketExists(ticket_id) THEN FALSE
    ELSE IF user.role = ROLE_ADMIN THEN TRUE
    ELSE IF user.role = ROLE_HELPER THEN get_ticket(ticket_id).assigned_to = user_email
    ELSE get_ticket(ticket_id).created_by = user_email

can_update_ticket(user_email, ticket_id) ==
    LET user == get_user_by_email(user_email) IN
    IF ~Usable(user) THEN FALSE
    ELSE IF ~TicketExists(ticket_id) THEN FALSE
    ELSE IF user.role = ROLE_ADMIN THEN TRUE
    ELSE IF user.role = ROLE_HELPER THEN get_ticket(ticket_id).assigned_to = user_email
    ELSE FALSE

can_delete_ticket(user_email) ==
    LET user == get_user_by_email(user_email) IN
    Found(user) /\ user.role = ROLE_ADMIN /\ user.is_active

can_assign_ticket(user_email) ==
    LET user == get_user_by_email(user_email) IN
    Found(user) /\ user.role = ROLE_ADMIN /\ user.is_active

can_add_comment(user_email, ticket_id) ==
    LET user == get_user_by_email(user_email) IN
    IF ~Usable(user) THEN FALSE
    ELSE IF ~TicketExists(ticket_id) THEN FALSE
    ELSE IF user.role = ROLE_ADMIN THEN TRUE
    ELSE IF user.role = ROLE_HELPER THEN get_ticket(ticket_id).assigned_to = user_email
    ELSE IF user.role = ROLE_CUSTOMER THEN get_ticket(ticket_id).created_by = user_email
    ELSE FALSE

can_add_internal_comment(user_email, ticket_id) ==
    LET user == get_user_by_email(user_email) IN
    IF ~Usable(user) THEN FALSE
    ELSE IF ~TicketExists(ticket_id) THEN FALSE
    ELSE IF user.role = ROLE_ADMIN THEN TRUE
    ELSE IF user.role = ROLE_HELPER THEN get_ticket(ticket_id).assigned_to = user_email
    ELSE FALSE

can_view_internal_comments(user_email) ==
    LET user == get_user_by_email(user_email) IN
    Found(user) /\ user.role \in {ROLE_HELPER, ROLE_ADMIN} /\ user.is_active

can_view_workload(user_email) ==
    LET user == get_user_by_email(user_email) IN
    Found(user) /\ user.role \in {ROLE_HELPER, ROLE_ADMIN} /\ user.is_active

can_manage_users(user_email) ==
    LET user == get_user_by_email(user_email) IN
    Found(user) /\ user.role = ROLE_ADMIN /\ user.is_active

can_view_analytics(user_email) ==
    LET user == get_user_by_email(user_email) IN
    Found(user) /\ user.role \in {ROLE_HELPER, ROLE_ADMIN} /\ user.is_active

Actions ==
    {"create_ticket", "view_ticket", "view_all_tickets", "update_ticket",
     "delete_ticket", "assign_ticket", "add_comment", "add_internal_comment",
     "view_internal_comments", "view_workload", "manage_users", "view_analytics"}

\* The predicate of each action, applied as its own signature asks.
Can(user_email, action, ticket_id) ==
    CASE action = "create_ticket" -> can_create_ticket(user_email)
      [] action = "view_ticket" -> can_view_ticket(user_email, ticket_id)
      [] action = "view_all_tickets" -> can_view_all_tickets(user_email)
      [] action = "update_ticket" -> can_update_ticket(user_email, ticket_id)
      [] action = "delete_ticket" -> can_delete_ticket(user_email)
      [] action = "assign_ticket" -> can_assign_ticket(user_email)
      [] action = "add_comment" -> can_add_comment(user_email, ticket_id)
      [] action = "add_internal_comment" -> can_add_internal_comment(user_email, ticket_id)
      [] action = "view_internal_comments" -> can_view_internal_comments(user_email)
      [] action = "view_workload" -> can_view_workload(user_email)
      [] action = "manage_users" -> can_manage_users(user_email)
      [] action = "view_analytics" -> can_view_analytics(user_email)
      [] OTHER -> FALSE

SENTINEL == "___NONEXISTENT___"

\* A variant that scopes an unusable user by their own identity.
get_user_tickets_filter_Own(user_email) ==
    LET user == get_user_by_email(user_email) IN
    IF ~Usable(user) THEN [k \in {"created_by"} |-> user_email]
    ELSE IF user.role = ROLE_ADMIN THEN <<>>
    ELSE IF user.role = ROLE_HELPER THEN [k \in {"assigned_to"} |-> user_email]
    ELSE IF user.role = ROLE_CUSTOMER THEN [k \in {"created_by"} |-> user_email]
    ELSE <<>>

\* get_user_tickets_filter(user_email): the keyword arguments for get_all_tickets
get_user_tickets_filter(user_email) ==
    LET user == get_user_by_email(user_email) IN
    IF ~Usable(user) THEN [k \in {"created_by"} |-> SENTINEL]
    ELSE IF user.role = ROLE_ADMIN THEN <<>>
    ELSE IF user.role = ROLE_HELPER THEN [k \in {"assigned_to"} |-> user_email]
    ELSE IF user.role = ROLE_CUSTOMER THEN [k \in {"created_by"} |-> user_email]
    ELSE <<>>

\* dict.update: the keys of the second argument replace those of the first
DictUpdate(base, more) ==
    [k \in DOMAIN base \cup DOMAIN more |-> IF k \in DOMAIN more THEN more[k] ELSE base[k]]

get_accessible_tickets(user_email, additional_filters) ==
    get_all_tickets(DictUpdate(get_user_tickets_filter(user_email), additional_filters))

\* require_permission(user_email, action, ticket_id=...): what the call does.
\* The table entry of add_internal_comment calls can_add_internal_comment with
\* one argument, which Python refuses with a TypeError for its two-parameter
\* signature before the predicate runs.
require_permission(user_email, action, ticket_id) ==
    IF action \notin Actions THEN "ValueError"
    ELSE IF action = "add_internal_comment" THEN "TypeError"
    ELSE IF Can(user_email, action, ticket_id) THEN "ok"
    ELSE "PermissionDenied"

\* The role named in the PermissionDenied message
DeniedRole(user_email) ==
    LET user == get_user_by_email(user_email) IN
    IF Found(user) THEN user.role ELSE "unknown"

-----------------------------------------------------------------------------
(* users.py: deactivate_user(email) / activate_user(email), through update_user *)

SetActive(email, flag) ==
    /\ Normalize(email) \in DOMAIN users
    /\ users' = [users EXCEPT ![Normalize(email)].is_active = flag]
    /\ UNCHANGED <<threads, store, clock, resp>>

ToggleInputs == {"admin@x", "H1@X", "c2@x"}

deactivate_user == \E email \in ToggleInputs : SetActive(email, FALSE)

activate_user == \E email \in ToggleInputs : SetActive(email, TRUE)

-----------------------------------------------------------------------------
(* Inputs of the calls *)

TitleInputs == {"", " ", " a "}
PriorityInputs == {"Medium", "Urgent"}
CreatorInputs == {"c1@x"}
StatusInputs == {None, "Open", "Resolved", "Closed", "Bogus"}
AssigneeInputs == {"h1@x", "c1@x"}
CommentInputs == {" ", " a "}
Requesters == {"c1@x", "c2@x", "ghost@x"}
Staff == {"admin@x", "h1@x"}

-----------------------------------------------------------------------------
(* Direct calls of the Lifecycle Manager (database.py) *)

create_ticket ==
    \E title \in {" ", " a "}, priority \in PriorityInputs, created_by \in CreatorInputs :
        DoCreateTicket("create_ticket", title, "d", priority, created_by)

update_ticket ==
    \E ticket_id \in TicketIds, status \in StatusInputs, assigned_to \in {None, "h1@x"} :
        DoUpdateTicket("update_ticket", ticket_id, status, assigned_to, None)

delete_ticket ==
    \E ticket_id \in TicketIds : DoDeleteTicket("delete_ticket", ticket_id)

add_comment ==
    \E ticket_id \in TicketIds, author \in {"h1@x"}, comment \in CommentInputs,
       is_internal \in {TRUE} :
        DoAddComment("add_comment", ticket_id, author, comment, is_internal)

-----------------------------------------------------------------------------
(* allocation.py *)

\* reassign_ticket(ticket_id, new_assignee, changed_by): False when the ticket
\* is missing or update_ticket raises, True otherwise.
DoReassignTicket(op, ticket_id, new_assignee, changed_by, ifTrue, ifFalse) ==
    IF ~TicketExists(ticket_id)
    THEN Failed(op, ifFalse)
    ELSE LET ticket == get_ticket(ticket_id)
             rows == UpdateHistory(ticket, None, new_assignee, changed_by, clock)
         IN /\ Len(history) + Len(rows) <= MaxHistory
            /\ tickets' = [tickets EXCEPT
                              ![ticket_id] = UpdatedTicket(ticket, None, new_assignee, clock)]
            /\ history' = history \o rows
            /\ resp' = Call(op, ticket_id, None, new_assignee, ifTrue)
            /\ UNCHANGED <<threads, users, nextId, comments, nextCommentId, clock>>

\* get_staff_workload()[email]: the tickets assigned to email that are neither
\* Closed nor Resolved
current_tickets(email) ==
    Cardinality({id \in DOMAIN tickets :
                    /\ tickets[id].assigned_to = email
                    /\ tickets[id].status \notin {"Closed", "Resolved"}})

max_tickets == 20

available_capacity(email) == max_tickets - current_tickets(email)

\* get_available_staff(): the rows of the active helpers
ActiveHelpers ==
    {e \in DOMAIN users : users[e].role = ROLE_HELPER /\ users[e].is_active}

\* A list that is left in the order of the SELECT.
StaffHeads_Unsorted == ActiveHelpers

\* The helpers that can stand at the head of get_available_staff(): the list is
\* sorted by available_capacity, largest first, and helpers of equal capacity
\* stay in the order the SELECT (which has no ORDER BY) returned them.
StaffHeads ==
    {e \in ActiveHelpers :
        \A o \in ActiveHelpers : available_capacity(o) <= available_capacity(e)}

\* A variant that gives up only below zero.
AutoAssign_Below(op, ticket_id, changed_by, room) ==
    IF ActiveHelpers = {} THEN Failed(op, "None")
    ELSE \E best_helper \in StaffHeads :
            IF available_capacity(best_helper) < 0 THEN Failed(op, "None")
            ELSE IF ~TicketExists(ticket_id) THEN Failed(op, "None")
            ELSE LET ticket == get_ticket(ticket_id)
                     rows == UpdateHistory(ticket, None, best_helper, changed_by, clock)
                 IN /\ room
                    /\ tickets' = [tickets EXCEPT ![ticket_id] =
                                      UpdatedTicket(ticket, None, best_helper, clock)]
                    /\ history' = history \o rows
                    /\ resp' = Call(op, ticket_id, None, best_helper, best_helper)
                    /\ UNCHANGED <<threads, users, nextId, comments, nextCommentId, clock>>

\* auto_assign_ticket(ticket_id, changed_by): None when there is no helper, when
\* the head of the list has no capacity left, or when reassign_ticket returns
\* False; the email of the head otherwise.  room bounds the history.
AutoAssign(op, ticket_id, changed_by, room) ==
    IF ActiveHelpers = {} THEN Failed(op, "None")
    ELSE \E best_helper \in StaffHeads :
            IF available_capacity(best_helper) <= 0 THEN Failed(op, "None")
            ELSE IF ~TicketExists(ticket_id) THEN Failed(op, "None")
            ELSE LET ticket == get_ticket(ticket_id)
                     rows == UpdateHistory(ticket, None, best_helper, changed_by, clock)
                 IN /\ room
                    /\ tickets' = [tickets EXCEPT ![ticket_id] =
                                      UpdatedTicket(ticket, None, best_helper, clock)]
                    /\ history' = history \o rows
                    /\ resp' = Call(op, ticket_id, None, best_helper, best_helper)
                    /\ UNCHANGED <<threads, users, nextId, comments, nextCommentId, clock>>

-----------------------------------------------------------------------------
(* The endpoints of app.py.  actor is the X-User-Email header. *)

\* get_current_user: 401 for an unknown or inactive user
Authenticated(actor) == Usable(get_user_by_email(actor))

\* HTTPException(status_code=403, detail=str(e)) for the PermissionDenied of
\* require_permission: the detail names the role and the action only.
Forbidden(user_email, action) == <<"403", DeniedRole(user_email), action>>

\* GET /tickets/{ticket_id}: the answer (status code and what the body tells)
get_ticket_details(actor, ticket_id) ==
    LET user == get_user_by_email(actor) IN
    IF ~Authenticated(actor) THEN <<"401">>
    ELSE IF require_permission(user.email, "view_ticket", ticket_id) # "ok"
         THEN Forbidden(user.email, "view_ticket")
    ELSE <<"200", "ticket">>

\* POST /tickets
create_new_ticket ==
    \E actor \in Requesters, title \in TitleInputs, priority \in PriorityInputs :
        LET user == get_user_by_email(actor) op == "create_new_ticket" IN
        IF ~Authenticated(actor) THEN Failed(op, "401")
        ELSE IF title = "" \/ priority \notin VALID_PRIORITIES THEN Failed(op, "422")
        ELSE IF create_ticket_error(title, priority) # "ok" THEN Failed(op, "400")
        ELSE DoCreateTicket(op, title, "d", priority, user.email)

\* PUT /tickets/{ticket_id}: the keyword arguments built from the body always
\* hold changed_by, which the call also passes itself, so the call of
\* update_ticket is refused with a TypeError once the permission check passed.
update_ticket_endpoint_answer(actor, ticket_id) ==
    LET user == get_user_by_email(actor) IN
    IF ~Authenticated(actor) THEN <<"401">>
    ELSE IF require_permission(user.email, "update_ticket", ticket_id) # "ok"
         THEN Forbidden(user.email, "update_ticket")
    ELSE <<"500">>

\* The same endpoint with changed_by left out of the keyword arguments, so that
\* the body's status and assigned_to reach update_ticket.
update_ticket_endpoint_Filtered ==
    \E actor \in Staff \cup {"c1@x"}, ticket_id \in TicketIds,
       status \in {None, "Resolved"}, assigned_to \in {None, "h2@x"} :
        LET user == get_user_by_email(actor) op == "update_ticket_endpoint" IN
        IF update_ticket_endpoint_answer(actor, ticket_id) # <<"500">>
        THEN Failed(op, update_ticket_endpoint_answer(actor, ticket_id)[1])
        ELSE DoUpdateTicket(op, ticket_id, status, assigned_to, user.email)

update_ticket_endpoint ==
    \E actor \in Staff \cup {"c1@x"}, ticket_id \in TicketIds :
        Failed("update_ticket_endpoint", update_ticket_endpoint_answer(actor, ticket_id)[1])

\* DELETE /tickets/{ticket_id}
delete_ticket_endpoint ==
    \E actor \in Staff, ticket_id \in TicketIds :
        LET user == get_user_by_email(actor) op == "delete_ticket_endpoint" IN
        IF ~Authenticated(actor) THEN Failed(op, "401")
        ELSE IF require_permission(user.email, "assign_ticket", 0) # "ok"
             THEN Failed(op, "403")
        ELSE IF ~TicketExists(ticket_id) THEN Failed(op, "404")
        ELSE DoDeleteTicket(op, ticket_id)

\* The answer of POST /tickets/{ticket_id}/comments before anything is written
add_comment_to_ticket_answer(actor, ticket_id, comment, is_internal) ==
    LET user == get_user_by_email(actor) IN
    IF ~Authenticated(actor) THEN <<"401">>
    ELSE IF require_permission(user.email, "add_comment", ticket_id) # "ok"
         THEN Forbidden(user.email, "add_comment")
    ELSE IF user.role = ROLE_CUSTOMER /\ is_internal
         THEN <<"403", "Customers cannot add internal notes">>
    ELSE IF add_comment_error(ticket_id, comment) # "ok" THEN <<"400">>
    ELSE <<"200", "comment">>

\* POST /tickets/{ticket_id}/comments
add_comment_to_ticket ==
    \E actor \in {"admin@x", "c1@x", "c2@x"}, ticket_id \in TicketIds, comment \in CommentInputs,
       is_internal \in BOOLEAN :
        LET user == get_user_by_email(actor) op == "add_comment_to_ticket" IN
        IF add_comment_to_ticket_answer(actor, ticket_id, comment, is_internal)[1] # "200"
        THEN Failed(op, add_comment_to_ticket_answer(actor, ticket_id, comment, is_internal)[1])
        ELSE DoAddComment(op, ticket_id, user.email, comment, is_internal)

\* GET /tickets/{ticket_id}/comments: the comments returned, or the refusal
get_ticket_comments_endpoint(actor, ticket_id) ==
    LET user == get_user_by_email(actor) IN
    IF ~Authenticated(actor) THEN <<"401">>
    ELSE IF require_permission(user.email, "view_ticket", ticket_id) # "ok"
         THEN Forbidden(user.email, "view_ticket")
    ELSE <<"200", get_ticket_comments(ticket_id, can_view_internal_comments(user.email))>>

\* PUT /tickets/{ticket_id}/assign
assign_ticket_endpoint ==
    \E actor \in Staff, ticket_id \in TicketIds, helper_email \in AssigneeInputs :
        LET user == get_user_by_email(actor) op == "assign_ticket_endpoint" IN
        IF ~Authenticated(actor) THEN Failed(op, "401")
        ELSE IF require_permission(user.email, "assign_ticket", 0) # "ok"
             THEN Failed(op, "403")
        ELSE IF ~is_helper(helper_email) THEN Failed(op, "400")
        ELSE IF update_ticket_error(ticket_id, None) # "ok" THEN Failed(op, "400")
        ELSE DoUpdateTicket(op, ticket_id, None, helper_email, user.email)

\* POST /tickets/{ticket_id}/auto-assign
auto_assign_ticket_endpoint ==
    \E actor \in Staff, ticket_id \in TicketIds :
        LET user == get_user_by_email(actor) op == "auto_assign_ticket_endpoint" IN
        IF ~Authenticated(actor) THEN Failed(op, "401")
        ELSE IF require_permission(user.email, "assign_ticket", 0) # "ok"
             THEN Failed(op, "403")
        ELSE AutoAssign(op, ticket_id, user.email, Len(history) < MaxHistory)

\* PUT /tickets/{ticket_id}/reassign
reassign_ticket_endpoint ==
    \E actor \in Staff, ticket_id \in TicketIds, new_helper_email \in AssigneeInputs :
        LET user == get_user_by_email(actor) op == "reassign_ticket_endpoint" IN
        IF ~Authenticated(actor) THEN Failed(op, "401")
        ELSE IF require_permission(user.email, "assign_ticket", 0) # "ok"
             THEN Failed(op, "403")
        ELSE DoReassignTicket(op, ticket_id, new_helper_email, user.email, "200", "404")

-----------------------------------------------------------------------------
(* demo_roles.py: the helper flow, a permission check followed by a direct
   update_ticket(ticket_id, status=..., changed_by=helper_email) *)

helper_update_status ==
    \E actor \in {"h1@x", "c1@x"}, ticket_id \in TicketIds, status \in {"In Progress", "Resolved"} :
        IF require_permission(actor, "update_ticket", ticket_id) # "ok"
        THEN Failed("helper_update_status", "PermissionDenied")
        ELSE DoUpdateTicket("helper_update_status", ticket_id, status, None, actor)

-----------------------------------------------------------------------------
(* Specifications *)

\* The deployed system: the endpoints, the helper flow and the directory.
Next ==
    \/ deactivate_user
    \/ activate_user
    \/ create_new_ticket
    \/ update_ticket_endpoint
    \/ delete_ticket_endpoint
    \/ assign_ticket_endpoint
    \/ reassign_ticket_endpoint
    \/ auto_assign_ticket_endpoint
    \/ helper_update_status

Spec == Init /\ [][Next]_vars

\* The Lifecycle Manager called directly, with the clock running.
LifecycleNext ==
    \/ Tick
    \/ create_ticket
    \/ update_ticket
    \/ delete_ticket

LifecycleSpec == Init /\ [][LifecycleNext]_vars

\* Comments on tickets, through the endpoint and by direct calls.
CommentNext ==
    \/ deactivate_user
    \/ activate_user
    \/ create_new_ticket
    \/ add_comment_to_ticket
    \/ add_comment
    \/ delete_ticket_endpoint

CommentSpec == Init /\ [][CommentNext]_vars

-----------------------------------------------------------------------------
(* Properties of the lifecycle timestamps (LifecycleSpec) *)

\* The positions in ticket_history of the calls that moved ticket t to status s
ArrivalsAt(t, s) ==
    {i \in 1..Len(history) :
        /\ history[i].ticket_id = t
        /\ history[i].field_changed = "status"
        /\ history[i].new_value = s}

MinOf(S) == CHOOSE x \in S : \A y \in S : x <= y
MaxOf(S) == CHOOSE x \in S : \A y \in S : x >= y

\* The timestamp fixed for status s on row t
FixedAt(t, s) == IF s = "Resolved" THEN tickets[t].resolved_at ELSE tickets[t].closed_at

C2_ResolveTwice ==
    [][\A t \in DOMAIN tickets :
          (/\ resp'.op = "update_ticket"
           /\ resp'.ticket_id = t
           /\ resp'.status = "Resolved"
           /\ resp'.assigned_to = None)
          => IF tickets[t].status # "Resolved"
             THEN /\ tickets'[t].resolved_at = clock
                  /\ tickets'[t].status = "Resolved"
                  /\ Len(history') = Len(history) + 1
                  /\ history'[Len(history')].ticket_id = t
                  /\ history'[Len(history')].field_changed = "status"
                  /\ history'[Len(history')].new_value = "Resolved"
             ELSE /\ tickets' = tickets
                  /\ history' = history
                  /\ comments' = comments]_vars

\* The second of two such calls has returned, later than the first, and the
\* row still carries the first call's timestamps.
C2_Witness ==
    /\ resp.op = "update_ticket"
    /\ resp.status = "Resolved"
    /\ resp.assigned_to = None
    /\ resp.ticket_id \in DOMAIN tickets
    /\ tickets[resp.ticket_id].status = "Resolved"
    /\ tickets[resp.ticket_id].resolved_at < resp.at
    /\ tickets[resp.ticket_id].updated_at = tickets[resp.ticket_id].resolved_at
    /\ Cardinality(ArrivalsAt(resp.ticket_id, "Resolved")) = 1

-----------------------------------------------------------------------------
(* Properties of the Permission Engine (Spec) *)

TicketScoped == {"view_ticket", "update_ticket", "add_comment", "add_internal_comment"}

\* The decision table: the decision for a role, an action, the identity asking
\* and the row of an existing ticket.
Table(role, action, actor, ticket) ==
    CASE action \in {"view_ticket", "add_comment"} ->
            \/ role = ROLE_CUSTOMER /\ ticket.created_by = actor
            \/ role = ROLE_HELPER /\ ticket.assigned_to = actor
            \/ role = ROLE_ADMIN
      [] action \in {"update_ticket", "add_internal_comment"} ->
            \/ role = ROLE_HELPER /\ ticket.assigned_to = actor
            \/ role = ROLE_ADMIN
      [] action \in {"view_all_tickets", "delete_ticket", "assign_ticket", "manage_users"} ->
            role = ROLE_ADMIN
      [] action \in {"view_internal_comments", "view_workload", "view_analytics"} ->
            role \in {ROLE_HELPER, ROLE_ADMIN}
      [] action = "create_ticket" -> role \in {ROLE_CUSTOMER, ROLE_HELPER, ROLE_ADMIN}

\* The table's decision for any identity and any ticket id: an unknown or
\* inactive actor is denied, and so is a ticket-scoped action on a missing ticket.
Decide(actor, action, ticket_id) ==
    LET user == get_user_by_email(actor) IN
    IF ~(Found(user) /\ user.is_active) THEN FALSE
    ELSE IF action \in TicketScoped
         THEN IF ticket_id \in DOMAIN tickets
              THEN Table(user.role, action, actor, tickets[ticket_id])
              ELSE FALSE
    ELSE Table(user.role, action, actor, NoUser)

\* C3: for every active actor, every action and every existing ticket, the
\* permission predicate of the action decides as the decision table does,
\* ownership conditions included.
C3_DecisionTable ==
    \A actor \in Identities, action \in Actions, t \in DOMAIN tickets :
        LET user == get_user_by_email(actor) IN
        (Found(user) /\ user.is_active)
            => (Can(actor, action, t) <=> Table(user.role, action, actor, tickets[t]))

\* A ticket created by one requester and assigned to one helper, everyone
\* active: the creator and the assignee are let in, the other requester and the
\* other helper are not, and the creator may not update.
C3_Witness ==
    \E t \in DOMAIN tickets :
        /\ \A e \in DOMAIN users : users[e].is_active
        /\ tickets[t].created_by = "c1@x"
        /\ tickets[t].assigned_to = "h1@x"
        /\ can_view_ticket("c1@x", t) /\ ~can_view_ticket("c2@x", t)
        /\ can_update_ticket("h1@x", t) /\ ~can_update_ticket("h2@x", t)
        /\ ~can_update_ticket("c1@x", t)

\* C4 as stated: for every action of the table, add_internal_comment included,
\* require_permission returns normally exactly when the table allows the action
\* and otherwise fails with PermissionDenied, never in another way.
C4_RequirePermission ==
    \A actor \in Identities, action \in Actions, t \in TicketIds :
        require_permission(actor, action, t) =
            IF Decide(actor, action, t) THEN "ok" ELSE "PermissionDenied"

\* The ticket ids an action is asked about: every id for a ticket-scoped
\* action, the id 0 that the callers pass for the other actions
AskedIds(action) == IF action \in TicketScoped THEN TicketIds ELSE {0}

\* C5: an unknown or inactive actor is denied every action for every ticket id
\* whatever role is stored for it; a step that deactivates a user leaves every
\* decision for that user a deny, and a step that reactivates a user gives back
\* the decisions of the role the directory kept for it.
C5_DeniedActor ==
    /\ [](\A actor \in Identities :
            LET user == get_user_by_email(actor) IN
            ~(Found(user) /\ user.is_active)
                => \A action \in Actions :
                      \A t \in AskedIds(action) : ~Can(actor, action, t))
    /\ [][\A e \in DOMAIN users :
            /\ users'[e].role = users[e].role
            /\ (~users[e].is_active /\ users'[e].is_active)
                   => \A actor \in {a \in Identities : Normalize(a) = e},
                         action \in Actions :
                            \A t \in AskedIds(action) :
                               Can(actor, action, t)' <=> Decide(actor, action, t)']_vars

\* A helper with a ticket assigned to them has been deactivated.
C5_Witness ==
    \E t \in DOMAIN tickets :
        /\ tickets[t].assigned_to = "h1@x"
        /\ ~users["h1@x"].is_active
        /\ ~can_view_ticket("h1@x", t)
        /\ ~can_create_ticket("H1@X")

\* C6: a view, update or comment permission query for a ticket id that does
\* not exist is denied for every actor, the administrator included; and for an
\* actor without the view right on an existing ticket, the view, update and
\* comment endpoints give the same answer for that ticket as for a ticket id
\* that does not exist.
C6_NonexistentTicket ==
    \A actor \in Identities, t \in TicketIds \ DOMAIN tickets :
        /\ ~can_view_ticket(actor, t)
        /\ ~can_update_ticket(actor, t)
        /\ ~can_add_comment(actor, t)
        /\ \A t2 \in DOMAIN tickets :
              ~can_view_ticket(get_user_by_email(actor).email, t2)
                  => /\ get_ticket_details(actor, t) = get_ticket_details(actor, t2)
                     /\ update_ticket_endpoint_answer(actor, t)
                            = update_ticket_endpoint_answer(actor, t2)
                     /\ \A comment \in CommentInputs, is_internal \in BOOLEAN :
                            add_comment_to_ticket_answer(actor, t, comment, is_internal)
                                = add_comment_to_ticket_answer(actor, t2, comment, is_internal)

\* An active requester asks for somebody else's ticket and for a missing one,
\* and is refused both with the 403 of PermissionDenied; the administrator is
\* active and is refused the missing one.
C6_Witness ==
    \E t \in TicketIds \ DOMAIN tickets, t2 \in DOMAIN tickets :
        /\ tickets[t2].created_by = "c1@x"
        /\ get_ticket_details("c2@x", t2) = Forbidden("c2@x", "view_ticket")
        /\ get_ticket_details("c2@x", t) = Forbidden("c2@x", "view_ticket")
        /\ get_ticket_details("admin@x", t) = Forbidden("admin@x", "view_ticket")
        /\ get_ticket_details("admin@x", t2)[1] = "200"

AdditionalFilters ==
    {<<>>}
    \cup {[k \in {"status"} |-> v] : v \in {"Open", "Resolved"}}
    \cup {[k \in {"assigned_to"} |-> v] : v \in {"h1@x", "h2@x"}}
    \cup {[k \in {"created_by"} |-> v] : v \in {"c1@x", "c2@x"}}

\* C8 as stated: get_accessible_tickets(actor, **additional) returns exactly
\* the tickets that satisfy both the actor's scope filter and the additional
\* filter, so the additional filter only narrows the actor's own scope.
C8_ComposesByAnd ==
    \A actor \in Identities, additional \in AdditionalFilters :
        get_accessible_tickets(actor, additional)
            = get_all_tickets(get_user_tickets_filter(actor)) \cap get_all_tickets(additional)

\* C10 as stated: whenever a step writes a ticket's assigned_to, the value
\* written is none or the identity of a user who is an active helper at that
\* moment (a new ticket starts unassigned).
C10_AssigneeIsActiveHelper ==
    [][\A t \in DOMAIN tickets' :
          IF t \in DOMAIN tickets
          THEN tickets'[t].assigned_to # tickets[t].assigned_to
                   => \/ tickets'[t].assigned_to = None
                      \/ is_helper(tickets'[t].assigned_to)
          ELSE tickets'[t].assigned_to = None]_vars

-----------------------------------------------------------------------------
(* Properties of comments (CommentSpec) *)

\* C9: a requester is never returned an internal comment and never creates
\* one: the comments the comments endpoint returns to a requester hold no
\* internal comment, a comment request with is_internal = true from a requester
\* is not accepted, and no stored internal comment has a requester as author.
C9_InternalHidden ==
    /\ \A actor \in Identities, t \in TicketIds :
          LET user == get_user_by_email(actor)
              answer == get_ticket_comments_endpoint(actor, t)
          IN (Found(user) /\ user.role = ROLE_CUSTOMER)
                 => /\ answer[1] = "200"
                          => \A i \in 1..Len(answer[2]) : ~answer[2][i].is_internal
                    /\ \A comment \in CommentInputs :
                          add_comment_to_ticket_answer(actor, t, comment, TRUE)[1] # "200"
    /\ \A i \in 1..Len(comments) :
          comments[i].is_internal
              => get_user_by_email(comments[i].author).role # ROLE_CUSTOMER

\* A requester's ticket carries a public and an internal comment: the requester
\* is returned one comment, the administrator two, and the requester's own
\* internal comment is refused.
C9_Witness ==
    \E t \in DOMAIN tickets :
        /\ tickets[t].created_by = "c1@x"
        /\ Len(get_ticket_comments(t, TRUE)) = 2
        /\ get_ticket_comments_endpoint("c1@x", t)[1] = "200"
        /\ Len(get_ticket_comments_endpoint("c1@x", t)[2]) = 1
        /\ get_ticket_comments_endpoint("admin@x", t)[1] = "200"
        /\ Len(get_ticket_comments_endpoint("admin@x", t)[2]) = 2
        /\ add_comment_to_ticket_answer("c1@x", t, " a ", TRUE)
               = <<"403", "Customers cannot add internal notes">>

\* C11: a ticket's assigned_to changes only in a request issued by an active
\* administrator through one of the assignment endpoints; no request of a
\* helper or a requester, a helper's update of an own ticket included, changes it.
AssignmentOps ==
    {"assign_ticket_endpoint", "reassign_ticket_endpoint", "auto_assign_ticket_endpoint"}

-----------------------------------------------------------------------------
(* database.py under concurrent callers: each thread runs one call at a time,
   statement by statement.  Every statement commits itself, because the
   connection is opened with isolation_level=None; readers take no lock. *)

\* The statements at which a thread waits for db_lock
LockPcs == {"create_lock", "update_lock", "delete_lock", "comment_lock"}

\* The statements inside a "with db_lock:" block
WritingSection ==
    {"create_insert", "create_log", "update_write", "update_stamp", "delete_select",
     "delete_comments", "delete_history", "delete_row", "comment_insert"}

At(th, pc) == procs[th].pc = pc

Goto(th, pc) == procs' = [procs EXCEPT ![th].pc = pc]

InCall(pcs) == Cardinality({th \in Threads : procs[th].pc \in pcs})

\* A return that leaves the lock with the thread.
Return_KeepLock(th) ==
    /\ lock' = lock
    /\ procs' = [procs EXCEPT ![th] = Idle]

\* Leaving the with block and returning to the caller
Return(th) ==
    /\ lock' = None
    /\ procs' = [procs EXCEPT ![th] = Idle]

HistoryOf(ticket_id) == SelectSeq(history, LAMBDA h : h.ticket_id = ticket_id)

CommentsOf(ticket_id) == SelectSeq(comments, LAMBDA c : c.ticket_id = ticket_id)

\* create_ticket(" a ", None, "Medium", "c1@x"): the validation, before the lock
BeginCreateTicket(th) ==
    /\ At(th, "idle")
    /\ create_ticket_error(" a ", "Medium") = "ok"
    /\ nextId + InCall({"create_lock", "create_insert"}) <= MaxTickets
    /\ Len(history) + InCall({"create_lock", "create_insert", "create_log",
                              "update_lock", "update_write"}) < MaxHistory
    /\ Goto(th, "create_lock")
    /\ UNCHANGED <<lock, users, store, clock, resp>>

\* update_ticket(ticket_id, status="Resolved"): the status validation, before the lock
BeginUpdateTicket(th) ==
    /\ At(th, "idle")
    /\ \E ticket_id \in TicketIds :
          procs' = [procs EXCEPT ![th] = [Idle EXCEPT !.pc = "update_lock",
                                                      !.ticket_id = ticket_id,
                                                      !.seen = <<"Resolved", None, None>>]]
    /\ Len(history) + InCall({"create_lock", "create_insert", "create_log",
                              "update_lock", "update_write"}) < MaxHistory
    /\ UNCHANGED <<lock, users, store, clock, resp>>

\* delete_ticket(ticket_id)
BeginDeleteTicket(th) ==
    /\ At(th, "idle")
    /\ \E ticket_id \in TicketIds :
          procs' = [procs EXCEPT ![th] = [Idle EXCEPT !.pc = "delete_lock",
                                                      !.ticket_id = ticket_id]]
    /\ UNCHANGED <<lock, users, store, clock, resp>>

\* add_comment(ticket_id, "h1@x", " a ", False): the validation and the check
\* that the ticket exists, both before the lock; a refused call changes nothing
BeginAddComment(th) ==
    /\ At(th, "idle")
    /\ \E ticket_id \in TicketIds :
          /\ add_comment_error(ticket_id, " a ") = "ok"
          /\ procs' = [procs EXCEPT ![th] = [Idle EXCEPT !.pc = "comment_lock",
                                                         !.ticket_id = ticket_id]]
    /\ nextCommentId + InCall({"comment_lock", "comment_insert"}) <= MaxComments
    /\ UNCHANGED <<lock, users, store, clock, resp>>

\* Where a thread stands once it holds the lock
Entry(pc) ==
    CASE pc = "create_lock" -> "create_insert"
      [] pc = "update_lock" -> "update_write"
      [] pc = "delete_lock" -> "delete_select"
      [] pc = "comment_lock" -> "comment_insert"

\* A lock that is taken whether or not another thread holds it.
Acquire_Unguarded(th) ==
    /\ procs[th].pc \in LockPcs
    /\ lock' = th
    /\ Goto(th, Entry(procs[th].pc))
    /\ UNCHANGED <<users, store, clock, resp>>

\* with db_lock: the thread enters when no thread holds the lock
Acquire(th) ==
    /\ procs[th].pc \in LockPcs
    /\ lock = None
    /\ lock' = th
    /\ Goto(th, Entry(procs[th].pc))
    /\ UNCHANGED <<users, store, clock, resp>>

\* create_ticket: INSERT INTO tickets
InsertTicket(th) ==
    /\ At(th, "create_insert")
    /\ tickets' = (nextId :> NewTicket(nextId, " a ", None, "Medium", "c1@x", clock))
                      @@ tickets
    /\ nextId' = nextId + 1
    /\ procs' = [procs EXCEPT ![th].pc = "create_log", ![th].ticket_id = nextId]
    /\ UNCHANGED <<lock, users, history, comments, nextCommentId, clock, resp>>

\* create_ticket: log_ticket_history, then return get_ticket(ticket_id)
LogCreated(th) ==
    /\ At(th, "create_log")
    /\ history' = Append(history,
           HistoryEntry(procs[th].ticket_id, "created", None, "Open",
                        OrSystem("c1@x"), clock))
    /\ resp' = Call("create_ticket", procs[th].ticket_id, None, None, "ok")
    /\ Return(th)
    /\ UNCHANGED <<users, tickets, nextId, comments, nextCommentId, clock>>

\* update_ticket: the body of the with block, with the status, assigned_to
\* and changed_by of the call (kept in seen); a missing ticket raises
WriteUpdate(th) ==
    /\ At(th, "update_write")
    /\ Return(th)
    /\ LET ticket_id == procs[th].ticket_id
           status == procs[th].seen[1]
           assigned_to == procs[th].seen[2]
           changed_by == procs[th].seen[3]
       IN
       IF ~TicketExists(ticket_id)
       THEN UNCHANGED <<users, store, clock, resp>>
       ELSE LET ticket == get_ticket(ticket_id)
                rows == UpdateHistory(ticket, status, assigned_to, changed_by, clock)
            IN /\ tickets' = [tickets EXCEPT ![ticket_id] =
                                 UpdatedTicket(ticket, status, assigned_to, clock)]
               /\ history' = history \o rows
               /\ resp' = Call("update_ticket", ticket_id, status, assigned_to, "ok")
               /\ UNCHANGED <<users, nextId, comments, nextCommentId, clock>>

\* delete_ticket: SELECT id FROM tickets; return False when there is no row.
\* seen keeps what the store held for the ticket at this point.
SelectForDelete(th) ==
    /\ At(th, "delete_select")
    /\ IF ~TicketExists(procs[th].ticket_id)
       THEN Return(th)
       ELSE /\ procs' = [procs EXCEPT
                   ![th].pc = "delete_comments",
                   ![th].seen = <<HistoryOf(procs[th].ticket_id),
                                  CommentsOf(procs[th].ticket_id)>>]
            /\ UNCHANGED lock
    /\ UNCHANGED <<users, store, clock, resp>>

\* delete_ticket: DELETE FROM comments WHERE ticket_id=?
DeleteComments(th) ==
    /\ At(th, "delete_comments")
    /\ comments' = SelectSeq(comments, LAMBDA c : c.ticket_id # procs[th].ticket_id)
    /\ Goto(th, "delete_history")
    /\ UNCHANGED <<lock, users, tickets, nextId, history, nextCommentId, clock, resp>>

\* delete_ticket: DELETE FROM ticket_history WHERE ticket_id=?
DeleteHistory(th) ==
    /\ At(th, "delete_history")
    /\ history' = SelectSeq(history, LAMBDA h : h.ticket_id # procs[th].ticket_id)
    /\ Goto(th, "delete_row")
    /\ UNCHANGED <<lock, users, tickets, nextId, comments, nextCommentId, clock, resp>>

\* delete_ticket: DELETE FROM tickets WHERE id=?, commit, return True
DeleteTicketRow(th) ==
    /\ At(th, "delete_row")
    /\ tickets' = [id \in DOMAIN tickets \ {procs[th].ticket_id} |-> tickets[id]]
    /\ resp' = Call("delete_ticket", procs[th].ticket_id, None, None, "True")
    /\ Return(th)
    /\ UNCHANGED <<users, nextId, history, comments, nextCommentId, clock>>

\* delete_ticket: a statement raises (sqlite3.OperationalError); the handler
\* calls rollback, which undoes nothing on an autocommit connection, and
\* re-raises; the with block releases the lock.
DeleteRaises(th) ==
    /\ procs[th].pc \in {"delete_comments", "delete_history", "delete_row"}
    /\ lock' = None
    /\ Goto(th, "delete_raised")
    /\ UNCHANGED <<users, store, clock, resp>>

\* The caller of the failed delete_ticket goes on
AfterRaise(th) ==
    /\ At(th, "delete_raised")
    /\ procs' = [procs EXCEPT ![th] = Idle]
    /\ UNCHANGED <<lock, users, store, clock, resp>>

\* add_comment: INSERT INTO comments, commit, return the Comment
InsertComment(th) ==
    /\ At(th, "comment_insert")
    /\ comments' = Append(comments,
           [id |-> nextCommentId, ticket_id |-> procs[th].ticket_id,
            author |-> "h1@x", comment |-> strip(" a "), is_internal |-> FALSE,
            created_at |-> clock])
    /\ nextCommentId' = nextCommentId + 1
    /\ resp' = Call("add_comment", procs[th].ticket_id, None, None, "ok")
    /\ Return(th)
    /\ UNCHANGED <<users, tickets, nextId, history, clock>>

ConcurrentNext ==
    \E th \in Threads :
        \/ BeginCreateTicket(th)
        \/ BeginUpdateTicket(th)
        \/ BeginDeleteTicket(th)
        \/ BeginAddComment(th)
        \/ Acquire(th)
        \/ InsertTicket(th)
        \/ LogCreated(th)
        \/ WriteUpdate(th)
        \/ SelectForDelete(th)
        \/ DeleteComments(th)
        \/ DeleteHistory(th)
        \/ DeleteTicketRow(th)
        \/ DeleteRaises(th)
        \/ AfterRaise(th)
        \/ InsertComment(th)

ConcurrentSpec == Init /\ [][ConcurrentNext]_vars

\* C12: at most one of create_ticket, update_ticket, delete_ticket and
\* add_comment is inside its store-writing section at any time, and the
\* thread inside is the one that holds db_lock.
C12_WritersExclude ==
    /\ Cardinality({th \in Threads : procs[th].pc \in WritingSection}) <= 1
    /\ \A th \in Threads : procs[th].pc \in WritingSection => lock = th

\* One writer is inside its section while another waits for the lock.
C12_Witness ==
    \E a, b \in Threads :
        /\ a # b
        /\ procs[a].pc \in WritingSection
        /\ procs[b].pc \in LockPcs
        /\ lock = a

\* C13: add_comment holds the lock over its check that the ticket exists, so
\* the store never holds a comment whose ticket no longer exists.
C13_NoOrphanComment ==
    \A i \in 1..Len(comments) : comments[i].ticket_id \in DOMAIN tickets

\* C14: delete_ticket removes the ticket, its comments and its history as one
\* unit: while a deletion that found the ticket is under way or has failed,
\* the store holds for that ticket either all that was there or nothing, and
\* when it returns true nothing of the ticket remains and the rows of other
\* tickets are as before.
AllOf(th) ==
    LET ticket_id == procs[th].ticket_id IN
    /\ ticket_id \in DOMAIN tickets
    /\ <<HistoryOf(ticket_id), CommentsOf(ticket_id)>> = procs[th].seen

NoneOf(ticket_id) ==
    /\ ticket_id \notin DOMAIN tickets
    /\ HistoryOf(ticket_id) = <<>>
    /\ CommentsOf(ticket_id) = <<>>

C14_AtomicDelete ==
    /\ [](\A th \in Threads :
            procs[th].pc \in {"delete_comments", "delete_history", "delete_row",
                              "delete_raised"}
                => AllOf(th) \/ NoneOf(procs[th].ticket_id))
    /\ [][\A th \in Threads :
            (At(th, "delete_row") /\ procs'[th].pc = "idle")
                => /\ NoneOf(procs[th].ticket_id)'
                   /\ \A id \in DOMAIN tickets \ {procs[th].ticket_id} :
                         /\ id \in DOMAIN tickets'
                         /\ tickets'[id] = tickets[id]
                         /\ HistoryOf(id)' = HistoryOf(id)
                         /\ CommentsOf(id)' = CommentsOf(id)]_vars

-----------------------------------------------------------------------------
(* The Lifecycle Manager called directly, with valid and invalid arguments *)

\* (title, description, priority, created_by)
CreateInputs ==
    {<<"", "d", "Medium", "c1@x">>, <<" ", None, "Medium", None>>,
     <<" a ", "d", "Medium", "c1@x">>, <<"b", None, "High", None>>,
     <<"b", "d", "Urgent", "c1@x">>}

\* (status, assigned_to, changed_by)
UpdateInputs ==
    {<<None, None, None>>, <<"Resolved", None, "admin@x">>,
     <<"Open", "h1@x", None>>, <<"Resolved", "h1@x", "admin@x">>,
     <<"Bogus", "h1@x", "admin@x">>}

\* At most MaxTickets tickets at a time, and one more id than that over time
ManagerRoom == Cardinality(DOMAIN tickets) < MaxTickets /\ nextId <= MaxTickets + 1

manager_create_ticket ==
    \E input \in CreateInputs :
        CreateTicketIf(ManagerRoom, "create_ticket",
                       input[1], input[2], input[3], input[4])

manager_update_ticket ==
    \E ticket_id \in TicketIds, input \in UpdateInputs :
        DoUpdateTicket("update_ticket", ticket_id, input[1], input[2], input[3])

manager_add_comment ==
    \E ticket_id \in TicketIds, comment \in {"", " ", " a "} :
        DoAddComment("add_comment", ticket_id, "c1@x", comment, FALSE)

ManagerNext ==
    \/ Tick
    \/ manager_create_ticket
    \/ manager_update_ticket
    \/ delete_ticket

ManagerSpec == Init /\ [][ManagerNext]_vars

\* The same calls with add_comment, at one instant of the clock
ValidationNext ==
    \/ manager_create_ticket
    \/ manager_update_ticket
    \/ manager_add_comment

ValidationSpec == Init /\ [][ValidationNext]_vars

\* C15: a successful create_ticket numbers the new ticket with an id that no
\* earlier ticket, deleted ones included, ever had; the ticket is Open,
\* unassigned, created_at = updated_at, resolved_at and closed_at unset; and
\* exactly one history entry ("created", none, "Open") is appended for it.
C15_FreshOpenTicket ==
    /\ [](\A id \in DOMAIN tickets : id < nextId)
    /\ [][/\ nextId' >= nextId
          /\ \A id \in DOMAIN tickets' \ DOMAIN tickets :
                LET ticket == tickets'[id] IN
                /\ id = nextId
                /\ nextId' = id + 1
                /\ DOMAIN tickets' = DOMAIN tickets \cup {id}
                /\ ticket.id = id
                /\ ticket.status = "Open"
                /\ ticket.assigned_to = None
                /\ ticket.created_at = ticket.updated_at
                /\ ticket.resolved_at = NoTime
                /\ ticket.closed_at = NoTime
                /\ Len(history') = Len(history) + 1
                /\ SubSeq(history', 1, Len(history)) = history
                /\ LET row == history'[Len(history')] IN
                   /\ row.ticket_id = id
                   /\ row.field_changed = "created"
                   /\ row.old_value = None
                   /\ row.new_value = "Open"]_vars

\* A ticket was created after an earlier ticket had been deleted.
C15_Witness ==
    /\ resp.op = "create_ticket"
    /\ resp.ticket_id \in DOMAIN tickets
    /\ \E id \in 1..(nextId - 1) : id \notin DOMAIN tickets /\ id < resp.ticket_id

\* C16: a Lifecycle Manager call that fails leaves the store as it was.
\* create_ticket with an empty or blank title or a priority outside the allowed
\* ones, update_ticket with a status outside the allowed ones or a ticket that
\* does not exist, add_comment with an empty body or a ticket that does not
\* exist are each refused; and whatever a step adds to or changes in the store
\* carries only values that a call which is not refused can carry.
BlankText == {"", " "}

Created(input) ==
    /\ create_ticket_error(input[1], input[3]) = "ok"
    /\ CreateTicketIf(ManagerRoom, "create_ticket", input[1], input[2], input[3], input[4])

\* C17 as stated: the ticket fetched by its id right after a successful
\* create_ticket has exactly the title, description, priority and created_by
\* that were passed.
C17_RoundTripIdentical ==
    [][\A input \in CreateInputs :
          (nextId' # nextId /\ Created(input))
              => LET fetched == tickets'[resp'.ticket_id] IN
                 /\ fetched.title = input[1]
                 /\ fetched.description = input[2]
                 /\ fetched.priority = input[3]
                 /\ fetched.created_by = input[4]]_vars

\* C17, amended: the fetched ticket has the passed title without its leading
\* and trailing whitespace, and exactly the description, priority and
\* created_by that were passed.
C17_RoundTripStripped ==
    [][\A input \in CreateInputs :
          (nextId' # nextId /\ Created(input))
              => LET fetched == tickets'[resp'.ticket_id] IN
                 /\ resp'.op = "create_ticket"
                 /\ fetched.title = strip(input[1])
                 /\ fetched.description = input[2]
                 /\ fetched.priority = input[3]
                 /\ fetched.created_by = input[4]]_vars

\* A ticket created from the title " a " is in the store under the title "a".
C17_Witness ==
    /\ resp.op = "create_ticket"
    /\ TicketExists(resp.ticket_id)
    /\ get_ticket(resp.ticket_id).title = "a"
    /\ get_ticket(resp.ticket_id).description = "d"
    /\ get_ticket(resp.ticket_id).created_by = "c1@x"

\* The step is an update_ticket call with these arguments that was not refused
Updated(ticket_id, input) ==
    /\ update_ticket_error(ticket_id, input[1]) = "ok"
    /\ DoUpdateTicket("update_ticket", ticket_id, input[1], input[2], input[3])

\* The rows of field for ticket_id among the rows a step appended
Appended(ticket_id, field) ==
    {i \in (Len(history) + 1)..Len(history') :
        history'[i].ticket_id = ticket_id /\ history'[i].field_changed = field}

-----------------------------------------------------------------------------
(* allocation.py on a store in which the helpers are at or near their
   capacity of max_tickets *)

\* The numbers of open tickets a helper starts with
AllocLoads == {0, max_tickets - 1, max_tickets, max_tickets + 1}

\* A ticket as create_ticket, update_ticket and the assignment endpoint left it
AllocTicket(id, assigned_to, status) ==
    [NewTicket(id, "b", None, "Medium", "c1@x", 0) EXCEPT
        !.assigned_to = assigned_to,
        !.status = status,
        !.resolved_at = IF status = "Resolved" THEN 0 ELSE NoTime]

\* n1 open tickets of h1@x, n2 open tickets of h2@x, one Resolved ticket of
\* h2@x and one Open ticket that nobody is assigned to
AllocTickets(n1, n2) ==
    [id \in 1..(n1 + n2 + 2) |->
        IF id <= n1 THEN AllocTicket(id, "h1@x", "Open")
        ELSE IF id <= n1 + n2 THEN AllocTicket(id, "h2@x", "Open")
        ELSE IF id = n1 + n2 + 1 THEN AllocTicket(id, "h2@x", "Resolved")
        ELSE AllocTicket(id, None, "Open")]

\* The history of these tickets: created, then assigned, then resolved
AllocHistory(n1, n2) ==
    [i \in 1..(n1 + n2 + 2) |-> HistoryEntry(i, "created", None, "Open", "c1@x", 0)]
    \o [i \in 1..(n1 + n2 + 1) |->
          HistoryEntry(i, "assigned_to", None, AllocTickets(n1, n2)[i].assigned_to,
                       "admin@x", 0)]
    \o <<HistoryEntry(n1 + n2 + 1, "status", "Open", "Resolved", "h2@x", 0)>>

AllocInit ==
    \E n1 \in AllocLoads, n2 \in AllocLoads :
        /\ lock = None
        /\ procs = [th \in Threads |-> Idle]
        /\ users = [e \in Emails |-> [role |-> DemoRole(e), is_active |-> TRUE]]
        /\ tickets = AllocTickets(n1, n2)
        /\ nextId = n1 + n2 + 3
        /\ history = AllocHistory(n1, n2)
        /\ comments = <<>>
        /\ nextCommentId = 1
        /\ clock = 0
        /\ resp = NoCall

\* auto_assign_ticket(ticket_id): for the unassigned ticket, the Resolved
\* ticket and an id that does not exist; at most MaxHistory assignments on
\* top of the rows the store starts with
auto_assign_ticket ==
    \E ticket_id \in {nextId - 2, nextId - 1, nextId} :
        AutoAssign("auto_assign_ticket", ticket_id, "System",
                   Len(history) < 2 * (nextId - 1) + MaxHistory)

\* deactivate_user / activate_user on the helpers
toggle_helper ==
    \E email \in {"h1@x", "h2@x"}, flag \in BOOLEAN :
        /\ users[email].is_active # flag
        /\ SetActive(email, flag)

AllocationNext ==
    \/ auto_assign_ticket
    \/ toggle_helper

AllocationSpec == AllocInit /\ [][AllocationNext]_vars

\* Every active helper's remaining capacity is 0 or less, or no helper is active
Saturated == \A e \in ActiveHelpers : available_capacity(e) <= 0

\* C19: when every active helper's remaining capacity is 0 or less, or no
\* helper is active, auto_assign_ticket returns none and changes nothing: a
\* step that changes a ticket, the history or the record of the last call
\* never starts in such a state.
C19_SaturatedAssignsNothing ==
    [][Saturated => UNCHANGED <<store, resp>>]_vars

\* All active helpers are at or over capacity, the last slot having been
\* filled by auto_assign_ticket, and an unassigned ticket waits.
C19_Witness ==
    /\ Saturated
    /\ ActiveHelpers # {}
    /\ resp.op = "auto_assign_ticket"
    /\ \E id \in DOMAIN tickets :
          tickets[id].assigned_to = None /\ tickets[id].status = "Open"

\* C20: when some active helper has remaining capacity above 0, the head of
\* the staff list has capacity above 0, so that auto_assign_ticket on an
\* existing ticket does not give up; the helper it returns is an active
\* helper whose remaining capacity is maximal among the active helpers, the
\* ticket's assigned_to equals the returned helper after the call, and no
\* other ticket changes.
C20_AssignsMostAvailable ==
    /\ [](~Saturated => \A head \in StaffHeads : available_capacity(head) > 0)
    /\ [][(store' # store \/ resp' # resp)
            => LET helper == resp'.result IN
               /\ resp'.op = "auto_assign_ticket"
               /\ helper \in ActiveHelpers
               /\ available_capacity(helper) > 0
               /\ \A other \in ActiveHelpers :
                     available_capacity(other) <= available_capacity(helper)
               /\ resp'.ticket_id \in DOMAIN tickets
               /\ DOMAIN tickets' = DOMAIN tickets
               /\ tickets'[resp'.ticket_id].assigned_to = helper
               /\ \A id \in DOMAIN tickets \ {resp'.ticket_id} :
                     tickets'[id] = tickets[id]]_vars

\* The unassigned ticket went to h2@x, who had one slot left while h1@x was
\* full.
C20_Witness ==
    /\ resp.op = "auto_assign_ticket"
    /\ resp.result = "h2@x"
    /\ TicketExists(resp.ticket_id)
    /\ get_ticket(resp.ticket_id).assigned_to = "h2@x"
    /\ current_tickets("h2@x") = max_tickets
    /\ current_tickets("h1@x") = max_tickets
    /\ ActiveHelpers = {"h1@x", "h2@x"}

-----------------------------------------------------------------------------
(* allocation.py: balance_workload, on a store with three helpers *)

\* The helpers of this store; Emails has the first two
BalanceHelpers == {"h1@x", "h2@x", "h3@x"}

\* A variant of the sort that puts the largest load first.
RECURSIVE SortByLoad_Descending(_)
SortByLoad_Descending(list) ==
    IF list = <<>> THEN <<>>
    ELSE LET n == Len(list)
             row == list[n]
             front == SortByLoad_Descending(SubSeq(list, 1, n - 1))
             before == SelectSeq(front, LAMBDA s : s.current_tickets >= row.current_tickets)
             after == SelectSeq(front, LAMBDA s : s.current_tickets < row.current_tickets)
         IN before \o <<row>> \o after

\* list.sort(key=current_tickets) on a list of staff rows: ascending, rows of
\* equal load stay in the order they had
RECURSIVE SortByLoad(_)
SortByLoad(list) ==
    IF list = <<>> THEN <<>>
    ELSE LET n == Len(list)
             row == list[n]
             front == SortByLoad(SubSeq(list, 1, n - 1))
             before == SelectSeq(front, LAMBDA s : s.current_tickets <= row.current_tickets)
             after == SelectSeq(front, LAMBDA s : s.current_tickets > row.current_tickets)
         IN before \o <<row>> \o after

\* The orders in which the SELECT of get_available_staff (no ORDER BY) can
\* return the active helpers
StaffRows ==
    LET n == Cardinality(ActiveHelpers) IN
    {rows \in [1..n -> ActiveHelpers] : \A i, j \in 1..n : rows[i] = rows[j] => i = j}

\* get_available_staff() for one order of the SELECT: sorting by
\* available_capacity, largest first, is sorting by current_tickets, smallest first
get_available_staff(rows) ==
    SortByLoad([i \in 1..Len(rows) |->
                   [email |-> rows[i], current_tickets |-> current_tickets(rows[i])]])

RECURSIVE SumLoads(_)
SumLoads(list) ==
    IF list = <<>> THEN 0
    ELSE list[1].current_tickets + SumLoads(Tail(list))

\* A variant that takes every load above the average as overloaded.
IsOverloaded_AboveAverage(s, staff_list) ==
    s.current_tickets * Len(staff_list) > SumLoads(staff_list)

\* current_tickets > avg_load + 2, with avg_load = SumLoads / Len
IsOverloaded(s, staff_list) ==
    s.current_tickets * Len(staff_list) > SumLoads(staff_list) + 2 * Len(staff_list)

\* current_tickets < avg_load
IsUnderloaded(s, staff_list) ==
    s.current_tickets * Len(staff_list) < SumLoads(staff_list)

\* A variant in which an overloaded helper gives away all it has.
excess_All(s, staff_list) ==
    s.current_tickets

\* int(current_tickets - avg_load) of an overloaded helper
excess(s, staff_list) ==
    (s.current_tickets * Len(staff_list) - SumLoads(staff_list)) \div Len(staff_list)

\* get_all_tickets(assigned_to=email, status='Open'): ORDER BY created_at DESC
RECURSIVE NewestFirst(_)
NewestFirst(ids) ==
    IF ids = {} THEN <<>>
    ELSE LET newest == CHOOSE id \in ids :
                          \A o \in ids :
                              \/ tickets[o].created_at < tickets[id].created_at
                              \/ tickets[o].created_at = tickets[id].created_at /\ o <= id
         IN <<newest>> \o NewestFirst(ids \ {newest})

\* A variant that lists the tickets of the helper in any status.
OpenTicketsOf_AnyStatus(email) ==
    NewestFirst(get_all_tickets([assigned_to |-> email]))

OpenTicketsOf(email) ==
    NewestFirst(get_all_tickets([assigned_to |-> email, status |-> "Open"]))

\* tickets[:excess] of every overloaded helper, in the order of the two loops
RECURSIVE TicketsToMove(_, _)
TicketsToMove(overloaded, staff_list) ==
    IF overloaded = <<>> THEN <<>>
    ELSE LET open == OpenTicketsOf(overloaded[1].email)
             k == excess(overloaded[1], staff_list)
         IN SubSeq(open, 1, IF k < Len(open) THEN k ELSE Len(open))
            \o TicketsToMove(Tail(overloaded), staff_list)

\* The inner loop: each ticket goes to underloaded[0], whose tracked load
\* grows by one before the list is sorted again. st is the store and the
\* counter the loop has reached.
RECURSIVE Reassign(_, _, _, _)
Reassign(moves, underloaded, changed_by, st) ==
    IF moves = <<>> \/ underloaded = <<>> THEN st
    ELSE LET ticket == st.tickets[moves[1]]
             target == underloaded[1]
         IN Reassign(Tail(moves),
                     SortByLoad([underloaded EXCEPT ![1].current_tickets = @ + 1]),
                     changed_by,
                     [tickets |-> [st.tickets EXCEPT ![ticket.id] =
                                      UpdatedTicket(ticket, None, target.email, clock)],
                      history |-> st.history
                                  \o UpdateHistory(ticket, None, target.email, changed_by, clock),
                      targets |-> Append(st.targets, target.email),
                      reassigned |-> st.reassigned + 1])

\* What balance_workload leaves for one order of the SELECT
Balanced(rows, changed_by) ==
    LET staff_list == get_available_staff(rows)
        overloaded == SelectSeq(staff_list, LAMBDA s : IsOverloaded(s, staff_list))
        underloaded == SortByLoad(SelectSeq(staff_list, LAMBDA s : IsUnderloaded(s, staff_list)))
        start == [tickets |-> tickets, history |-> history, targets |-> <<>>, reassigned |-> 0]
    IN IF Len(staff_list) < 2 THEN start
       ELSE Reassign(TicketsToMove(overloaded, staff_list), underloaded, changed_by, start)

\* balance_workload(changed_by); the answer carries the "reassigned" count and
\* the model keeps the targets in the order they were chosen
balance_workload ==
    \E rows \in StaffRows :
        LET end == Balanced(rows, "System") IN
        /\ tickets' = end.tickets
        /\ history' = end.history
        /\ resp' = [Call("balance_workload", 0, None, None, end.reassigned)
                       EXCEPT !.assigned_to = end.targets]
        /\ UNCHANGED <<threads, users, nextId, comments, nextCommentId, clock>>

\* The loads the three helpers start with, and how many of the tickets of
\* h1@x are In Progress rather than Open
BalanceLoads1 == {0, 5, 7, 10}
BalanceLoads2 == {0, 2, 10}
BalanceLoads3 == {2, 3}
BalanceBusy == {0, 7}

\* A ticket created at the instant id, then assigned and perhaps started
BalanceTicket(id, assigned_to, status) ==
    [NewTicket(id, "b", None, "Medium", "c1@x", id) EXCEPT
        !.assigned_to = assigned_to,
        !.status = status]

BalanceOwner(id, n1, n2) ==
    IF id <= n1 THEN "h1@x" ELSE IF id <= n1 + n2 THEN "h2@x" ELSE "h3@x"

BalanceTickets(n1, n2, n3, busy) ==
    [id \in 1..(n1 + n2 + n3) |->
        BalanceTicket(id, BalanceOwner(id, n1, n2),
                      IF id <= busy THEN "In Progress" ELSE "Open")]

BalanceHistory(n1, n2, n3, busy) ==
    [i \in 1..(n1 + n2 + n3) |-> HistoryEntry(i, "created", None, "Open", "c1@x", i)]
    \o [i \in 1..(n1 + n2 + n3) |->
          HistoryEntry(i, "assigned_to", None, BalanceOwner(i, n1, n2), "admin@x", i)]
    \o [i \in 1..busy |-> HistoryEntry(i, "status", "Open", "In Progress", "h1@x", i)]

BalanceInit ==
    \E n1 \in BalanceLoads1, n2 \in BalanceLoads2, n3 \in BalanceLoads3,
       busy \in BalanceBusy, active3 \in BOOLEAN :
        /\ busy <= n1
        /\ lock = None
        /\ procs = [th \in Threads |-> Idle]
        /\ users = [e \in Emails \cup BalanceHelpers |->
                       [role |-> IF e \in BalanceHelpers THEN ROLE_HELPER ELSE DemoRole(e),
                        is_active |-> e = "h3@x" => active3]]
        /\ tickets = BalanceTickets(n1, n2, n3, busy)
        /\ nextId = n1 + n2 + n3 + 1
        /\ history = BalanceHistory(n1, n2, n3, busy)
        /\ comments = <<>>
        /\ nextCommentId = 1
        /\ clock = n1 + n2 + n3 + 1
        /\ resp = NoCall

\* deactivate_user / activate_user on a helper
toggle_balance_helper ==
    \E email \in BalanceHelpers, flag \in BOOLEAN :
        /\ users[email].is_active # flag
        /\ SetActive(email, flag)

BalanceNext ==
    \/ balance_workload
    \/ toggle_balance_helper

BalanceSpec == BalanceInit /\ [][BalanceNext]_vars

\* The largest load among the active helpers
MaxLoad ==
    CHOOSE m \in 0..Cardinality(DOMAIN tickets) :
        /\ \A e \in ActiveHelpers : current_tickets(e) <= m
        /\ ActiveHelpers # {} => \E e \in ActiveHelpers : current_tickets(e) = m

\* C21: a call of balance_workload leaves every active helper with a load
\* that is not below zero and not above the largest load an active helper had
\* before the call, and leaves the load of every other helper as it was.
C21_LoadsStayInRange ==
    [][users' = users =>
          \A e \in BalanceHelpers :
              IF e \in ActiveHelpers
              THEN /\ current_tickets(e)' >= 0
                   /\ current_tickets(e)' <= MaxLoad
              ELSE current_tickets(e)' = current_tickets(e)]_vars

\* Two helpers with ten tickets each have given two each to the third.
C21_Witness ==
    /\ resp.op = "balance_workload"
    /\ resp.result = 4
    /\ ActiveHelpers = BalanceHelpers
    /\ current_tickets("h1@x") = 8
    /\ current_tickets("h2@x") = 8
    /\ current_tickets("h3@x") \in {6, 7}

\* The sum of the loads of the active helpers
TotalLoad ==
    Cardinality({id \in DOMAIN tickets :
                    /\ tickets[id].assigned_to \in ActiveHelpers
                    /\ tickets[id].status \notin {"Closed", "Resolved"}})

\* load > average + 2 and load < average, over the active helpers
Overloaded(e) ==
    /\ e \in ActiveHelpers
    /\ current_tickets(e) * Cardinality(ActiveHelpers)
          > TotalLoad + 2 * Cardinality(ActiveHelpers)

Underloaded(e) ==
    /\ e \in ActiveHelpers
    /\ current_tickets(e) * Cardinality(ActiveHelpers) < TotalLoad

\* The tickets that a step takes away from e
GivenAway(e) ==
    {id \in DOMAIN tickets : tickets[id].assigned_to = e /\ tickets'[id].assigned_to # e}

\* min(floor(load - average), number of Open tickets) of an overloaded helper
Share(e) ==
    LET n == Cardinality(ActiveHelpers)
        over == (current_tickets(e) * n - TotalLoad) \div n
        open == Cardinality(get_all_tickets([assigned_to |-> e, status |-> "Open"]))
    IN IF over < open THEN over ELSE open

\* C23: a call of balance_workload with two or more active helpers takes from
\* each overloaded helper min(floor(load - average), its Open tickets) tickets
\* and answers the number of tickets whose assignee changed; with no
\* overloaded helper, or fewer than two helpers, it changes nothing and
\* answers 0.
C23_SharesGivenAway ==
    [][users' = users =>
          /\ resp'.op = "balance_workload"
          /\ resp'.result = Cardinality({id \in DOMAIN tickets :
                                 tickets'[id].assigned_to # tickets[id].assigned_to})
          /\ DOMAIN tickets' = DOMAIN tickets
          /\ IF Cardinality(ActiveHelpers) >= 2 /\ \E e \in ActiveHelpers : Overloaded(e)
             THEN \A e \in BalanceHelpers :
                      Cardinality(GivenAway(e)) = IF Overloaded(e) THEN Share(e) ELSE 0
             ELSE /\ resp'.result = 0
                  /\ UNCHANGED store]_vars

\* A helper with ten tickets, seven of them In Progress, was five above the
\* average and has given away its three Open tickets.
C23_Witness ==
    /\ resp.op = "balance_workload"
    /\ resp.result = 3
    /\ current_tickets("h1@x") = 7
    /\ get_all_tickets([assigned_to |-> "h1@x", status |-> "Open"]) = {}
    /\ current_tickets("h2@x") + current_tickets("h3@x") = 7

\* The tickets assigned to e
TicketsOf(e) == {id \in DOMAIN tickets : tickets[id].assigned_to = e}

\* C24: a call of balance_workload changes only tickets that were Open and
\* assigned to an overloaded helper, and of these only the assignee (with the
\* time of the update); every new assignee was underloaded when the call
\* began; a helper in neither bucket keeps its set of tickets; no status
\* changes, no ticket or comment is created or deleted, history is only
\* appended to, and the sum of the loads of the helpers stays the same.
C24_OnlyOpenTicketsMove ==
    [][users' = users =>
          /\ DOMAIN tickets' = DOMAIN tickets
          /\ UNCHANGED <<nextId, comments, nextCommentId>>
          /\ \A id \in DOMAIN tickets :
                tickets'[id] # tickets[id] =>
                    /\ tickets[id].status = "Open"
                    /\ Overloaded(tickets[id].assigned_to)
                    /\ tickets'[id].assigned_to # tickets[id].assigned_to
                    /\ Underloaded(tickets'[id].assigned_to)
                    /\ tickets'[id] = [tickets[id] EXCEPT
                                          !.assigned_to = tickets'[id].assigned_to,
                                          !.updated_at = clock]
          /\ \A e \in DOMAIN users :
                ~Overloaded(e) /\ ~Underloaded(e) => TicketsOf(e)' = TicketsOf(e)
          /\ Len(history') >= Len(history)
          /\ SubSeq(history', 1, Len(history)) = history
          /\ TotalLoad' = TotalLoad]_vars

\* The helper with ten tickets has given three to the helper with two, and
\* the helper with seven, which was in neither bucket, has the seven it had.
C24_Witness ==
    /\ resp.op = "balance_workload"
    /\ resp.result = 3
    /\ ActiveHelpers = BalanceHelpers
    /\ TicketsOf("h1@x") = 1..7
    /\ current_tickets("h2@x") = 7
    /\ current_tickets("h3@x") = 5

\* The tickets that the first k moves of a call gave to e, and the last of
\* these moves (0 when there was none); moves is the sequence of targets
Received(moves, e, k) == Cardinality({j \in 1..k : moves[j] = e})

LastServed(moves, e, k) ==
    IF \E j \in 1..k : moves[j] = e
    THEN CHOOSE j \in 1..k : moves[j] = e /\ \A i \in (j + 1)..k : moves[i] # e
    ELSE 0

\* C25: every ticket that balance_workload moves goes to an underloaded
\* helper whose tracked load (its load at the start plus the tickets it has
\* received in this call) is the smallest at that moment; of two helpers with
\* the same tracked load, the one that stands first in the list as the last
\* sort left it is taken, which is the one served more recently. With loads
\* 10, 2 and 2 and at least five Open tickets of the first helper, one call
\* moves five tickets and ends with loads 5, 5 and 4.
C25_GreedyLeastLoaded ==
    [][users' = users =>
          LET moves == resp'.assigned_to IN
          /\ Len(moves) = resp'.result
          /\ \A k \in 1..Len(moves) :
                /\ Underloaded(moves[k])
                /\ \A o \in ActiveHelpers \ {moves[k]} :
                      Underloaded(o) =>
                          LET mine == current_tickets(moves[k]) + Received(moves, moves[k], k - 1)
                              other == current_tickets(o) + Received(moves, o, k - 1)
                          IN \/ mine < other
                             \/ /\ mine = other
                                /\ LastServed(moves, moves[k], k - 1) >= LastServed(moves, o, k - 1)
          /\ ( /\ ActiveHelpers = BalanceHelpers
               /\ current_tickets("h1@x") = 10
               /\ current_tickets("h2@x") = 2
               /\ current_tickets("h3@x") = 2
               /\ Cardinality(get_all_tickets([assigned_to |-> "h1@x", status |-> "Open"])) >= 5 )
             => /\ resp'.result = 5
                /\ current_tickets("h1@x")' = 5
                /\ {current_tickets("h2@x")', current_tickets("h3@x")'} = {4, 5}]_vars

\* A call that moved five tickets of the helper with ten to the two helpers
\* with two each, the third of them to the helper that had received the second.
C25_Witness ==
    /\ resp.op = "balance_workload"
    /\ resp.result = 5
    /\ current_tickets("h1@x") = 5
    /\ {current_tickets("h2@x"), current_tickets("h3@x")} = {4, 5}
    /\ resp.assigned_to[1] # resp.assigned_to[2]
    /\ resp.assigned_to[2] = resp.assigned_to[3]
    /\ TicketsOf("h1@x") = 1..5

-----------------------------------------------------------------------------
(* database.py under concurrent callers whose threads are scheduled fairly *)

\* The statements of a call that a running thread executes without waiting
Proceed(th) ==
    \/ InsertTicket(th)
    \/ LogCreated(th)
    \/ WriteUpdate(th)
    \/ SelectForDelete(th)
    \/ DeleteComments(th)
    \/ DeleteHistory(th)
    \/ DeleteTicketRow(th)
    \/ DeleteRaises(th)
    \/ AfterRaise(th)
    \/ InsertComment(th)

\* A store that has seen earlier calls: the tickets created so far have been
\* deleted, and their history and comments with them
FairInit ==
    /\ lock = None
    /\ procs = [th \in Threads |-> Idle]
    /\ users = [e \in Emails |-> [role |-> DemoRole(e), is_active |-> TRUE]]
    /\ tickets = <<>>
    /\ nextId = MaxTickets
    /\ history = <<>>
    /\ comments = <<>>
    /\ nextCommentId = MaxComments
    /\ clock = 0
    /\ resp = NoCall

\* Every thread that can run does run, and a thread that waits for db_lock
\* gets it if the lock is free again and again.
FairSpec ==
    /\ FairInit
    /\ [][ConcurrentNext]_vars
    /\ \A th \in Threads : WF_vars(Proceed(th)) /\ SF_vars(Acquire(th))

-----------------------------------------------------------------------------
(* database.py: create_ticket and update_ticket under concurrent callers, with
   the status, the assignee and the author that update_ticket can be given *)

\* status, assigned_to and changed_by of the calls; "" is an assignee that
\* update_ticket accepts
AuditInputs ==
    {<<"Resolved", None, "admin@x">>, <<None, "h1@x", None>>, <<"Open", "", "admin@x">>}

\* update_ticket(ticket_id, status, assigned_to, changed_by) with one of the
\* inputs: the status validation, before the lock
BeginUpdateOf(th, inputs) ==
    /\ At(th, "idle")
    /\ \E ticket_id \in TicketIds, input \in inputs :
          /\ ~Given(input[1]) \/ input[1] \in VALID_STATUSES
          /\ procs' = [procs EXCEPT ![th] = [Idle EXCEPT !.pc = "update_lock",
                                                         !.ticket_id = ticket_id,
                                                         !.seen = input]]
    /\ Len(history) + InCall({"create_lock", "create_insert", "create_log",
                              "update_lock", "update_write"}) < MaxHistory
    /\ UNCHANGED <<lock, users, store, clock, resp>>

BeginUpdateWith(th) == BeginUpdateOf(th, AuditInputs)

AuditNext ==
    \E th \in Threads :
        \/ BeginCreateTicket(th)
        \/ BeginUpdateWith(th)
        \/ Acquire(th)
        \/ InsertTicket(th)
        \/ LogCreated(th)
        \/ WriteUpdate(th)

AuditSpec == Init /\ [][AuditNext]_vars

\* The history entries of one field of a ticket, in insertion order
EntriesOf(ticket_id, field) ==
    SelectSeq(HistoryOf(ticket_id), LAMBDA h : h.field_changed = field)

\* The value create_ticket gives the field
CreatedWith(field) == IF field = "status" THEN "Open" ELSE None

CurrentValue(ticket_id, field) ==
    IF field = "status" THEN tickets[ticket_id].status ELSE tickets[ticket_id].assigned_to

\* C26: for every ticket and each of the fields status and assigned_to, the
\* history entries of the field form a chain from the value set at creation
\* to the value the ticket holds, and no entry is changed or removed by
\* create_ticket or update_ticket.
C26_HistoryChain ==
    /\ [](\A ticket_id \in DOMAIN tickets : \A field \in {"status", "assigned_to"} :
            LET entries == EntriesOf(ticket_id, field) IN
            /\ \A i \in 1..Len(entries) :
                  entries[i].old_value =
                      IF i = 1 THEN CreatedWith(field) ELSE entries[i - 1].new_value
            /\ CurrentValue(ticket_id, field) =
                  IF entries = <<>> THEN CreatedWith(field)
                  ELSE entries[Len(entries)].new_value)
    /\ [][/\ Len(history') >= Len(history)
          /\ SubSeq(history', 1, Len(history)) = history]_vars

-----------------------------------------------------------------------------
(* A helper's update request beside an administrator's assignment: the
   permission check (permissions.py) is a read outside db_lock, the write
   (database.update_ticket) follows as a separate call.  In app.py the call
   that follows the check is refused with a TypeError; app_v2.py and
   demo_roles.py make it with status and changed_by. *)

\* Ticket 1, created by c1@x and assigned to h1@x by the administrator
RaceInit ==
    /\ lock = None
    /\ procs = [th \in Threads |-> Idle]
    /\ users = [e \in Emails |-> [role |-> DemoRole(e), is_active |-> TRUE]]
    /\ tickets = <<[NewTicket(1, " a ", None, "Medium", "c1@x", 0)
                       EXCEPT !.assigned_to = "h1@x"]>>
    /\ nextId = 2
    /\ history = <<HistoryEntry(1, "created", None, "Open", "c1@x", 0),
                   HistoryEntry(1, "assigned_to", None, "h1@x", "admin@x", 0)>>
    /\ comments = <<>>
    /\ nextCommentId = 1
    /\ clock = 0
    /\ resp = NoCall

\* The calls that have begun and may still append to the history
RaceRoom ==
    Len(history) + InCall({"update_checked", "update_lock", "update_write"})
        < Len(<<"created", "assigned_to">>) + MaxHistory

\* assert_can_update_ticket(helper, ticket_id) passes for a helper
HelperChecks(th) ==
    /\ At(th, "idle")
    /\ RaceRoom
    /\ \E helper \in {"h1@x", "h2@x"}, ticket_id \in TicketIds,
          status \in {"In Progress", "Resolved"} :
          /\ require_permission(helper, "update_ticket", ticket_id) = "ok"
          /\ procs' = [procs EXCEPT ![th] = [Idle EXCEPT !.pc = "update_checked",
                                                         !.ticket_id = ticket_id,
                                                         !.seen = <<status, None, helper>>]]
    /\ UNCHANGED <<lock, users, store, clock, resp>>

\* update_ticket(ticket_id, status=status, changed_by=helper) is called
HelperCalls(th) ==
    /\ At(th, "update_checked")
    /\ procs[th].seen[1] \in VALID_STATUSES
    /\ Goto(th, "update_lock")
    /\ UNCHANGED <<lock, users, store, clock, resp>>

\* POST /tickets/{ticket_id}/assign by the administrator: assert_is_admin,
\* is_helper, then update_ticket(ticket_id, assigned_to=helper_email)
AdminAssigns(th) ==
    /\ At(th, "idle")
    /\ RaceRoom
    /\ \E ticket_id \in TicketIds, helper_email \in {"h1@x", "h2@x"} :
          /\ require_permission("admin@x", "assign_ticket", 0) = "ok"
          /\ is_helper(helper_email)
          /\ procs' = [procs EXCEPT ![th] = [Idle EXCEPT !.pc = "update_lock",
                                                         !.ticket_id = ticket_id,
                                                         !.seen = <<None, helper_email, "admin@x">>]]
    /\ UNCHANGED <<lock, users, store, clock, resp>>

RaceNext ==
    \E th \in Threads :
        \/ HelperChecks(th)
        \/ HelperCalls(th)
        \/ AdminAssigns(th)
        \/ Acquire(th)
        \/ WriteUpdate(th)

RaceSpec == RaceInit /\ [][RaceNext]_vars

\* C27: whenever the update of a helper's request writes a status, the ticket
\* is assigned to that helper at the moment of the write.
C27_WrittenWhileAssigned ==
    [][\A th \in Threads :
          ( /\ At(th, "update_write")
            /\ procs'[th].pc = "idle"
            /\ procs[th].seen[3] \in {"h1@x", "h2@x"}
            /\ TicketExists(procs[th].ticket_id)
            /\ tickets'[procs[th].ticket_id].status # tickets[procs[th].ticket_id].status )
          => tickets[procs[th].ticket_id].assigned_to = procs[th].seen[3]]_vars

-----------------------------------------------------------------------------
(* database.py: update_ticket statement by statement.  The UPDATE of the
   fields and the UPDATEs of resolved_at and closed_at are separate
   statements, each committed as it is executed. *)

StampInputs ==
    {<<"Resolved", None, None>>, <<"Closed", None, None>>, <<"Open", "h1@x", None>>}

BeginStampUpdate(th) == BeginUpdateOf(th, StampInputs)

\* update_ticket: get_ticket, then the UPDATE and the history row of each
\* changed field; seen keeps the ticket as it was read
WriteFields(th) ==
    /\ At(th, "update_write")
    /\ LET ticket_id == procs[th].ticket_id
           status == procs[th].seen[1]
           assigned_to == procs[th].seen[2]
           changed_by == procs[th].seen[3]
       IN
       IF ~TicketExists(ticket_id)
       THEN /\ Return(th)
            /\ UNCHANGED <<users, store, clock, resp>>
       ELSE LET ticket == get_ticket(ticket_id) IN
            /\ tickets' = [tickets EXCEPT ![ticket_id] =
                              [UpdatedTicket(ticket, status, assigned_to, clock) EXCEPT
                                  !.resolved_at = ticket.resolved_at,
                                  !.closed_at = ticket.closed_at]]
            /\ history' = history \o UpdateHistory(ticket, status, assigned_to, changed_by, clock)
            /\ procs' = [procs EXCEPT ![th].pc = "update_stamp",
                                      ![th].seen = Append(procs[th].seen, ticket)]
            /\ UNCHANGED <<lock, users, nextId, comments, nextCommentId, clock, resp>>

\* update_ticket: the UPDATEs of resolved_at and closed_at, commit, return
WriteStamps(th) ==
    /\ At(th, "update_stamp")
    /\ LET ticket_id == procs[th].ticket_id
           status == procs[th].seen[1]
           ticket == procs[th].seen[4]
       IN /\ tickets' = [tickets EXCEPT
                            ![ticket_id].resolved_at = resolved_at_after(ticket, status, clock),
                            ![ticket_id].closed_at = closed_at_after(ticket, status, clock)]
          /\ resp' = Call("update_ticket", ticket_id, status, procs[th].seen[2], "ok")
    /\ Return(th)
    /\ UNCHANGED <<users, nextId, history, comments, nextCommentId, clock>>

StampNext ==
    \E th \in Threads :
        \/ BeginCreateTicket(th)
        \/ BeginStampUpdate(th)
        \/ Acquire(th)
        \/ InsertTicket(th)
        \/ LogCreated(th)
        \/ WriteFields(th)
        \/ WriteStamps(th)

StampSpec == Init /\ [][StampNext]_vars

-----------------------------------------------------------------------------
(* database.py: update_ticket on a store that holds two tickets, each with a
   comment *)

FrameComment(id) ==
    [id |-> id, ticket_id |-> id, author |-> "c1@x", comment |-> "a",
     is_internal |-> FALSE, created_at |-> 0]

\* Two tickets of c1@x as create_ticket and add_comment left them
FrameInit ==
    /\ lock = None
    /\ procs = [th \in Threads |-> Idle]
    /\ users = [e \in Emails |-> [role |-> DemoRole(e), is_active |-> TRUE]]
    /\ tickets = <<NewTicket(1, " a ", None, "Medium", "c1@x", 0),
                   NewTicket(2, " a ", "d", "High", "c1@x", 0)>>
    /\ nextId = 3
    /\ history = <<HistoryEntry(1, "created", None, "Open", "c1@x", 0),
                   HistoryEntry(2, "created", None, "Open", "c1@x", 0)>>
    /\ comments = <<FrameComment(1), FrameComment(2)>>
    /\ nextCommentId = 3
    /\ clock = 0
    /\ resp = NoCall

FrameNext ==
    \/ Tick
    \/ manager_update_ticket

FrameSpec == FrameInit /\ [][FrameNext]_vars

\* The fields of a ticket that no update writes
Fixed(ticket) ==
    <<ticket.id, ticket.title, ticket.description, ticket.priority,
      ticket.created_by, ticket.created_at>>

\* C29: a call of update_ticket leaves id, title, description, priority,
\* created_by and created_at of every ticket, every other ticket, every
\* comment and the history of every other ticket as they were; a call whose
\* status and assignee are not supplied or equal the current values changes
\* no ticket and no history row; any other call sets updated_at to the time
\* of the call, which is never before the value it replaces.
C29_UpdateFrame ==
    [][clock' = clock =>
          LET t == resp'.ticket_id
              status == resp'.status
              assigned_to == resp'.assigned_to
          IN /\ resp'.op = "update_ticket"
             /\ t \in DOMAIN tickets
             /\ DOMAIN tickets' = DOMAIN tickets
             /\ UNCHANGED <<users, nextId, comments, nextCommentId>>
             /\ \A id \in DOMAIN tickets :
                   /\ Fixed(tickets'[id]) = Fixed(tickets[id])
                   /\ id # t => tickets'[id] = tickets[id]
                   /\ id # t => HistoryOf(id)' = HistoryOf(id)
                   /\ tickets'[id].updated_at >= tickets[id].updated_at
             /\ SubSeq(history', 1, Len(history)) = history
             /\ IF /\ ~Given(status) \/ status = tickets[t].status
                   /\ assigned_to = None \/ assigned_to = tickets[t].assigned_to
                THEN UNCHANGED store
                ELSE /\ tickets'[t].updated_at = clock
                     /\ tickets'[t] # tickets[t]]_vars

\* The first ticket was resolved, and at a later time a call without values
\* was made on it, which left updated_at alone; the second ticket, the
\* comments and the history of the second ticket are as they were at the start.
C29_Witness ==
    /\ resp.op = "update_ticket"
    /\ resp.ticket_id = 1
    /\ resp.status = None
    /\ resp.assigned_to = None
    /\ resp.at > tickets[1].updated_at
    /\ tickets[1].status = "Resolved"
    /\ HistoryOf(2) = <<HistoryEntry(2, "created", None, "Open", "c1@x", 0)>>
    /\ tickets[2] = NewTicket(2, " a ", "d", "High", "c1@x", 0)
    /\ comments = <<FrameComment(1), FrameComment(2)>>

-----------------------------------------------------------------------------
(* allocation.py: auto_assign_ticket under concurrent callers.  The staff
   list is read without a lock (get_available_staff), the write goes through
   reassign_ticket and database.update_ticket, which takes db_lock. *)

\* The calls that have begun and may still append to the history
SnapshotRoom ==
    Len(history) + InCall({"assign_chosen", "update_lock", "update_write"})
        < 2 * (nextId - 1) + MaxHistory

\* auto_assign_ticket(ticket_id): staff_list[0] of the snapshot, refused when
\* nobody is listed or the best helper has no capacity left; for a ticket of
\* the first helper, the Resolved ticket and the unassigned ticket
ReadSnapshot(th) ==
    /\ At(th, "idle")
    /\ SnapshotRoom
    /\ \E ticket_id \in {1, nextId - 2, nextId - 1}, best_helper \in StaffHeads :
          /\ available_capacity(best_helper) > 0
          /\ procs' = [procs EXCEPT ![th] = [Idle EXCEPT !.pc = "assign_chosen",
                                                         !.ticket_id = ticket_id,
                                                         !.seen = <<None, best_helper, "System">>]]
    /\ UNCHANGED <<lock, users, store, clock, resp>>

\* reassign_ticket(ticket_id, best_helper['email'], changed_by): get_ticket,
\* then update_ticket(ticket_id, assigned_to=new_assignee, changed_by=changed_by)
CallReassign(th) ==
    /\ At(th, "assign_chosen")
    /\ IF TicketExists(procs[th].ticket_id)
       THEN Goto(th, "update_lock")
       ELSE procs' = [procs EXCEPT ![th] = Idle]
    /\ UNCHANGED <<lock, users, store, clock, resp>>

SnapshotNext ==
    \E th \in Threads :
        \/ ReadSnapshot(th)
        \/ CallReassign(th)
        \/ Acquire(th)
        \/ WriteUpdate(th)

SnapshotSpec == AllocInit /\ [][SnapshotNext]_vars

\* C30: whenever the write of an auto_assign_ticket call gives a ticket that
\* counts as load to a helper, that helper has fewer than max_tickets tickets
\* that are neither Resolved nor Closed at the moment of the write.
C30_WriteWithinCapacity ==
    [][\A th \in Threads :
          ( /\ At(th, "update_write")
            /\ procs'[th].pc = "idle"
            /\ TicketExists(procs[th].ticket_id)
            /\ tickets[procs[th].ticket_id].status \notin {"Closed", "Resolved"}
            /\ tickets'[procs[th].ticket_id].assigned_to
                  # tickets[procs[th].ticket_id].assigned_to )
          => current_tickets(procs[th].seen[2]) < max_tickets]_vars

====
